---- MODULE Spec2Model ----
(***************************************************************************)
(* A model of the search-and-metric core of cyphi: concept prechecks,      *)
(* constellations and their distance (src/cyphi/compute.py), the           *)
(* system-level bipartition search big_mip with its result cache           *)
(* (src/cyphi/compute.py), and the mechanism-level partition search        *)
(* find_mip (src/cyphi/subsystem.py).                                      *)
(*                                                                         *)
(* Numbers.  phi values and constellation distances are integers counting  *)
(* tenths (0.5 is 5).  Repertoire distances inside find_mip are integers   *)
(* counting units of 1e-11, so that the threshold 1e-10 is 10.             *)
(*                                                                         *)
(* The specifications share the variables below; each leaves the           *)
(* variables of the others unchanged:                                      *)
(*   SpecDist     constellation_distance, called on (C1, C2) and (C2, C1)  *)
(*   SpecFindMip  Subsystem.find_mip                                       *)
(*   SpecConcept  concept(subsystem, mechanism)                            *)
(*   Spec         big_mip with its cache                                   *)
(*   SpecCut      a Subsystem instance: __init__, cut, __eq__, __hash__    *)
(*   SpecMice     Subsystem.find_mice                                      *)
(*   SpecComplexes  main_complex, complexes and subsystems                 *)
(*   SpecRepertoire Subsystem.cause_repertoire                             *)
(*   SpecUsage      the calls of the four above that can raise a usage     *)
(*                  error                                                  *)
(*   SpecConstellation  constellation(subsystem)                           *)
(*   SpecPhi      Subsystem.phi_mip_past, phi_mip_future and phi           *)
(*   SpecEffect   effect_repertoire before and after a cut                 *)
(*   SpecParallel the parallel loop of _big_mip over the bipartitions      *)
(***************************************************************************)
EXTENDS Integers, Sequences, FiniteSets, TLC

VARIABLES
    \* ---- constellation_distance (SpecDist)
    distC1, distC2,     \* the two constellations the caller holds
    distPc,             \* position inside constellation_distance
    distArgs,           \* <<C1, C2>> as bound by the call in progress
    distLocals,         \* locals of the call in progress
    distResults,        \* one record per completed call, in call order
    emdUndefined,       \* what the EMD library yields outside its domain
    \* ---- find_mip (SpecFindMip)
    fmDirection, fmMechanism, fmPurview,   \* arguments
    fmPc,               \* position inside find_mip
    fmDistance,         \* for each candidate, the EMD its repertoire will have
    fmCandidates,       \* what mip_bipartition yields for the arguments
    fmUnpartitioned,    \* local unpartitioned_repertoire
    fmIndex,            \* number of candidates already taken from the generator
    fmSeen,             \* difference computed for each candidate taken
    fmDifferenceMin, fmMip,                \* locals difference_min and mip
    fmResult,           \* the returned value
    \* ---- big_mip and concept (Spec)
    cm,                 \* network.connectivity_matrix, as a set of edges
    policy,             \* constants.SINGLE_NODES_WITH_SELFLOOPS_HAVE_PHI
    seed,               \* selects the table of phi values the MICE search yields
    cache,              \* the store behind memory.cache on _big_mip
    pc,                 \* position inside big_mip
    subsystem,          \* argument of the call in progress
    cacheKey,           \* hash(subsystem) of the call in progress
    bipartitions,       \* local of _big_mip
    unpartitioned,      \* local unpartitioned_constellation
    mipCandidates,      \* results of _evaluate_partition, in order
    result,             \* value returned by the last completed call
    trace,              \* steps of _big_mip the call in progress has executed
    firstResult,        \* per subsystem content, the first result returned
    calls,              \* number of big_mip calls that ran _big_mip
    repeated,           \* the call in progress repeats an earlier call's content
    conceptCall,        \* the last direct call of concept(subsystem, mechanism)
    \* ---- a Subsystem instance and its cut (SpecCut)
    selfSub,            \* the instance: nodes, states, network and _cut
    otherSub,           \* a second instance, to compare the first one with
    born,               \* hash of the instance, and its equality with the
                        \* second one, as they were after construction
    cutOutcome,         \* "new", or how the last call of cut ended
    shared,             \* a second holder has a reference to the instance
    \* ---- find_mice (SpecMice)
    miceDirection, miceMechanism,          \* arguments
    miceMips,           \* what find_mip returned for each purview examined
    micePc,             \* position inside find_mice
    miceIndex,          \* number of purviews already taken from the powerset
    miceExamined,       \* the purviews find_mip was called with, in order
    micePhiMax, miceMaximalPurview,        \* locals phi_max, maximal_purview
    miceResult,         \* the returned value
    \* ---- main_complex, complexes and subsystems (SpecComplexes)
    cxArgument,         \* the argument: what it is an instance of, its size
    cxCall,             \* the function called: "main_complex" or "complexes"
    cxPc,               \* position inside the call
    cxBuilt,            \* the subsystems the generator has built, in order
    cxMips,             \* big_mip of each subsystem built, in order
    cxResult,           \* what main_complex returned
    \* ---- cause_repertoire (SpecRepertoire)
    repSub,             \* the subsystem: nodes, _cut, current and past state
    repTpm,             \* for each node of the network, its tpm
    repMechanism, repPurview,              \* arguments
    repPc,              \* position inside cause_repertoire
    repIndex,           \* number of mechanism nodes the loop has handled
    repCjd,             \* local cjd
    repInputs,          \* per mechanism node handled: the inputs conditioned
                        \* and the inputs marginalized out
    repDivided,         \* np.divide has been executed
    repResult,          \* the returned value
    \* ---- constellation (SpecConstellation)
    conSub,             \* the subsystem
    conPc,              \* position inside constellation
    conCalled,          \* the mechanisms concept was called with, in order
    conConcepts,        \* local concepts
    conResult,          \* the returned tuple
    \* ---- phi_mip_past, phi_mip_future and phi (SpecPhi)
    phiCaller,          \* the method called
    phiMechanism, phiPurview,              \* arguments
    phiPc,              \* position inside the call
    phiMips,            \* what mip_past / mip_future returned, in call order
    phiPast, phiFuture, \* values of phi_mip_past and phi_mip_future
    phiResult,          \* the value returned, or the exception raised
    \* ---- effect_repertoire under a changing cut (SpecEffect)
    effSub,             \* the subsystem: nodes, _cut, current and past state
    effTpm,             \* for each node of the network, its tpm
    effMechanism, effPurview,              \* arguments
    effPc,              \* what the caller does next
    effSeen,            \* per evaluation: the cut, and the effect and the
                        \* cause repertoire the instance returned
    \* ---- the parallel loop of _big_mip (SpecParallel)
    parSub,             \* argument subsystem of _big_mip
    parWorkers,         \* n_jobs: the size of the worker pool
    parPc,              \* position of the coordinator inside _big_mip
    parBipartitions,    \* local bipartitions
    parUnpartitioned,   \* local unpartitioned_constellation
    parNext,            \* number of tasks handed to a worker so far
    parRunning,         \* for each worker, the task it evaluates, or 0
    parCandidates,      \* for each task, its result once it is there
    parEvaluated,       \* for each task, how often it has been evaluated
    parOrder,           \* the tasks in the order they were completed
    parResult           \* what _big_mip returned

distVars == <<distC1, distC2, distPc, distArgs, distLocals, distResults,
              emdUndefined>>
fmVars == <<fmDirection, fmMechanism, fmPurview, fmPc, fmDistance, fmCandidates,
            fmUnpartitioned, fmIndex, fmSeen, fmDifferenceMin, fmMip, fmResult>>
bmVars == <<cm, policy, seed, cache, pc, subsystem, cacheKey, bipartitions,
            unpartitioned, mipCandidates, result, trace, firstResult, calls,
            repeated, conceptCall>>
cutVars == <<selfSub, otherSub, born, cutOutcome, shared>>
miceVars == <<miceDirection, miceMechanism, miceMips, micePc, miceIndex,
              miceExamined, micePhiMax, miceMaximalPurview, miceResult>>
cxVars == <<cxArgument, cxCall, cxPc, cxBuilt, cxMips, cxResult>>
repVars == <<repSub, repTpm, repMechanism, repPurview, repPc, repIndex,
             repCjd, repInputs, repDivided, repResult>>
conVars == <<conSub, conPc, conCalled, conConcepts, conResult>>
phiVars == <<phiCaller, phiMechanism, phiPurview, phiPc, phiMips, phiPast,
             phiFuture, phiResult>>
effVars == <<effSub, effTpm, effMechanism, effPurview, effPc, effSeen>>
parVars == <<parSub, parWorkers, parPc, parBipartitions, parUnpartitioned,
             parNext, parRunning, parCandidates, parEvaluated, parOrder,
             parResult>>
lateVars == <<conVars, phiVars, effVars, parVars>>
apiVars == <<cutVars, miceVars, cxVars, repVars, lateVars>>
coreVars == <<distVars, fmVars, bmVars>>
vars == <<distVars, fmVars, bmVars, apiVars>>

----------------------------------------------------------------------------
(* Bounds of the model. *)

\* concept phi values range over 0..MaxPhi (tenths)
MaxPhi == 2
\* number of big_mip calls in one behaviour that run _big_mip; calls served
\* from the cache are not bounded
MaxCalls == 1
\* repertoire distances reach EPSILON + MaxExcess (units of 1e-11)
MaxExcess == 1
\* the tuples handed to Subsystem.cut have at most MaxCutLen items
MaxCutLen == 2
\* the worker pool of the parallel loop has 1 .. MaxWorkers workers
MaxWorkers == 2

\* network.size: the networks of the model have three nodes
NetworkSize == 3
Nodes == 0 .. (NetworkSize - 1)

----------------------------------------------------------------------------
(* Sequences and sets. *)

RECURSIVE SeqSum(_)
SeqSum(s) == IF s = <<>> THEN 0 ELSE Head(s) + SeqSum(Tail(s))

InSeq(x, s) == \E i \in 1 .. Len(s) : s[i] = x

Range(s) == {s[i] : i \in 1 .. Len(s)}

Abs(x) == IF x < 0 THEN 0 - x ELSE x

Min2(a, b) == IF b < a THEN b ELSE a

SetMin(S) == CHOOSE x \in S : \A y \in S : x <= y

RECURSIVE SetSum(_)
SetSum(S) == IF S = {} THEN 0
             ELSE LET x == CHOOSE y \in S : TRUE IN x + SetSum(S \ {x})

\* the elements of a set of integers in increasing order (a sorted tuple)
RECURSIVE SortedTuple(_)
SortedTuple(S) == IF S = {} THEN <<>>
                  ELSE <<SetMin(S)>> \o SortedTuple(S \ {SetMin(S)})

\* A before B in the order itertools.combinations yields subsets of one size
LexLess(A, B) == A # B /\ SetMin((A \ B) \cup (B \ A)) \in A

\* A before B in the order utils.powerset yields them: by size, then as above
PowersetLess(A, B) ==
    \/ Cardinality(A) < Cardinality(B)
    \/ Cardinality(A) = Cardinality(B) /\ LexLess(A, B)

RECURSIVE OrderSets(_)
OrderSets(SS) ==
    IF SS = {} THEN <<>>
    ELSE LET first == CHOOSE A \in SS : \A B \in SS \ {A} : PowersetLess(A, B)
         IN <<first>> \o OrderSets(SS \ {first})

\* utils.powerset(nodes): every subset, the empty one first
powerset(S) == OrderSets(SUBSET S)

----------------------------------------------------------------------------
(* Concepts and the distance between constellations (compute.py). *)

\* the value None of a Concept's cause and effect
NoMice == 0 - 1

\* The place of a mechanism among the subsets of the network's nodes, in
\* powerset order; the empty mechanism has place 0.  It stands for the
\* repertoire a MICE of that mechanism specifies.
MechIndex(mechanism) ==
    Cardinality({B \in SUBSET Nodes : PowersetLess(B, mechanism)})

\* models.Concept
Concept(mechanism, phi, cause, effect) ==
    [mechanism |-> mechanism, phi |-> phi, cause |-> cause, effect |-> effect]

\* subsystem.null_concept: the zero-phi concept of the empty mechanism, whose
\* repertoires are the unconstrained ones
null_concept == Concept({}, 0, 0, 0)

\* utils.hamming_emd between two expanded repertoires
hamming_emd(r1, r2) == Abs(r1 - r2)

concept_distance(c1, c2) ==
    hamming_emd(c1.cause, c2.cause) + hamming_emd(c1.effect, c2.effect)

\* [c for c in A if c not in B]
OnlyIn(A, B) == SelectSeq(A, LAMBDA c : ~InSeq(c, B))

\* a faulty variant of constellation_distance_simple: every concept of the
\* bigger constellation counts as destroyed
constellation_distance_simple_all(C1, C2) ==
    LET bigger == IF Len(C2) > Len(C1) THEN C2 ELSE C1
    IN SeqSum([i \in 1 .. Len(bigger) |->
                  bigger[i].phi * concept_distance(bigger[i], null_concept)])

constellation_distance_simple(C1, C2) ==
    LET bigger == IF Len(C2) > Len(C1) THEN C2 ELSE C1
        smaller == IF Len(C2) > Len(C1) THEN C1 ELSE C2
        destroyed == OnlyIn(bigger, smaller)
    IN SeqSum([i \in 1 .. Len(destroyed) |->
                  destroyed[i].phi * concept_distance(destroyed[i], null_concept)])

\* d1, d2 = [[c.phi if c in constellation else 0 for c in all_concepts] ...]
PhiDistribution(constellation, all_concepts) ==
    [i \in 1 .. Len(all_concepts) |->
        IF InSeq(all_concepts[i], constellation) THEN all_concepts[i].phi ELSE 0]

\* _constellation_distance_emd up to the call of utils.emd: the list of all
\* concepts and the two phi distributions after the residual is assigned
EmdMasses(C1, C2, unique_C1, unique_C2) ==
    LET shared_concepts == SelectSeq(C1, LAMBDA c : InSeq(c, C2))
        all_concepts == shared_concepts \o unique_C1 \o unique_C2 \o <<null_concept>>
        n == Len(all_concepts)
        d1 == PhiDistribution(C1, all_concepts)
        d2 == PhiDistribution(C2, all_concepts)
        residual == SeqSum(d1) - SeqSum(d2)
    IN [all_concepts |-> all_concepts,
        d1 |-> IF residual < 0 THEN [d1 EXCEPT ![n] = residual] ELSE d1,
        d2 |-> IF residual > 0 THEN [d2 EXCEPT ![n] = residual] ELSE d2]

\* distance_matrix = [[concept_distance(i, j) for i in all] for j in all]
distance_matrix(all_concepts) ==
    [j \in 1 .. Len(all_concepts) |->
        [i \in 1 .. Len(all_concepts) |->
            concept_distance(all_concepts[i], all_concepts[j])]]

\* the masses are in the domain of the transport problem
ValidMasses(d1, d2) ==
    /\ \A i \in 1 .. Len(d1) : d1[i] >= 0
    /\ \A i \in 1 .. Len(d2) : d2[i] >= 0
    /\ SeqSum(d1) = SeqSum(d2)

\* utils.emd(d1, d2, distance_matrix).  The concepts of the model lie on a
\* half-line that starts at the null concept (the last point), so the cost of
\* the cheapest transport is the area between the two cumulative masses.
\* Outside its domain the library's answer is not defined: `undefined`.
emd(d1, d2, matrix, undefined) ==
    LET n == Len(d1)
        x(i) == matrix[n][i]
        far == IF n = 0 THEN 0 ELSE CHOOSE m \in {x(i) : i \in 1 .. n} :
                                        \A i \in 1 .. n : x(i) <= m
        F(d, t) == SeqSum([i \in 1 .. n |-> IF x(i) <= t THEN d[i] ELSE 0])
    IN IF ValidMasses(d1, d2)
       THEN SeqSum([k \in 1 .. far |-> Abs(F(d1, k - 1) - F(d2, k - 1))])
       ELSE undefined

constellation_distance_emd(C1, C2, unique_C1, unique_C2, undefined) ==
    LET m == EmdMasses(C1, C2, unique_C1, unique_C2)
    IN emd(m.d1, m.d2, distance_matrix(m.all_concepts), undefined)

\* the branch constellation_distance takes
UsesSimplePath(C1, C2) == OnlyIn(C1, C2) = <<>> \/ OnlyIn(C2, C1) = <<>>

constellation_distance(C1, C2, undefined) ==
    IF UsesSimplePath(C1, C2)
    THEN constellation_distance_simple(C1, C2)
    ELSE constellation_distance_emd(C1, C2, OnlyIn(C1, C2), OnlyIn(C2, C1),
                                    undefined)


----------------------------------------------------------------------------
(* SpecDist: constellation_distance(C1, C2, s) and then                    *)
(* constellation_distance(C2, C1, s), step by step.                        *)

\* the subsystem whose constellations are compared has these nodes
DistNodes == {0, 1}

DistMechanisms == (SUBSET DistNodes) \ {{}}

\* A constellation holds at most one concept per mechanism, of nonzero phi,
\* in powerset order (so compute.constellation builds it).
ConstellationOf(phis) ==
    LET ms == SelectSeq(powerset(DistNodes),
                        LAMBDA m : m # {} /\ phis[m] > 0)
    IN [i \in 1 .. Len(ms) |->
           Concept(ms[i], phis[ms[i]], MechIndex(ms[i]), MechIndex(ms[i]))]

DistConstellations ==
    {ConstellationOf(phis) : phis \in [DistMechanisms -> 0 .. MaxPhi]}

NoLocals == [only1 |-> <<>>, only2 |-> <<>>, all_concepts |-> <<>>,
             d1 |-> <<>>, d2 |-> <<>>]

\* the variables of the other two specifications at rest
FmIdle ==
    /\ fmDirection = "past" /\ fmMechanism = {} /\ fmPurview = {}
    /\ fmPc = "off" /\ fmDistance = <<>> /\ fmCandidates = <<>>
    /\ fmUnpartitioned = <<>> /\ fmIndex = 0 /\ fmSeen = <<>>
    /\ fmDifferenceMin = 0 /\ fmMip = <<>> /\ fmResult = <<>>

BmIdle ==
    /\ cm = {} /\ policy = FALSE /\ seed = 0 /\ cache = <<>> /\ pc = "off"
    /\ subsystem = <<>> /\ cacheKey = 0 /\ bipartitions = <<>>
    /\ unpartitioned = <<>> /\ mipCandidates = <<>> /\ result = <<>>
    /\ trace = <<>> /\ firstResult = <<>> /\ calls = 0 /\ repeated = FALSE
    /\ conceptCall = <<>>

DistRest ==
    /\ distC1 = <<>> /\ distC2 = <<>> /\ distPc = "off" /\ distArgs = <<>>
    /\ distLocals = NoLocals /\ distResults = <<>>

DistIdle == DistRest /\ emdUndefined = 0

CutIdle ==
    /\ selfSub = <<>> /\ otherSub = <<>> /\ born = <<>>
    /\ cutOutcome = "off" /\ shared = FALSE

MiceIdle ==
    /\ miceDirection = <<>> /\ miceMechanism = {} /\ miceMips = <<>>
    /\ micePc = "off" /\ miceIndex = 0 /\ miceExamined = <<>>
    /\ micePhiMax = 0 /\ miceMaximalPurview = <<>> /\ miceResult = <<>>

CxIdle ==
    /\ cxArgument = <<>> /\ cxCall = "" /\ cxPc = "off" /\ cxBuilt = <<>>
    /\ cxMips = <<>> /\ cxResult = <<>>

RepIdle ==
    /\ repSub = <<>> /\ repTpm = <<>> /\ repMechanism = <<>>
    /\ repPurview = {} /\ repPc = "off" /\ repIndex = 0 /\ repCjd = <<>>
    /\ repInputs = <<>> /\ repDivided = FALSE /\ repResult = <<>>

ConIdle ==
    /\ conSub = <<>> /\ conPc = "off" /\ conCalled = <<>>
    /\ conConcepts = <<>> /\ conResult = <<>>

PhiIdle ==
    /\ phiCaller = "" /\ phiMechanism = {} /\ phiPurview = {}
    /\ phiPc = "off" /\ phiMips = <<>> /\ phiPast = 0 /\ phiFuture = 0
    /\ phiResult = <<>>

EffIdle ==
    /\ effSub = <<>> /\ effTpm = <<>> /\ effMechanism = <<>>
    /\ effPurview = {} /\ effPc = "off" /\ effSeen = <<>>

ParIdle ==
    /\ parSub = <<>> /\ parWorkers = 0 /\ parPc = "off"
    /\ parBipartitions = <<>> /\ parUnpartitioned = <<>> /\ parNext = 0
    /\ parRunning = <<>> /\ parCandidates = <<>> /\ parEvaluated = <<>>
    /\ parOrder = <<>> /\ parResult = <<>>

LateIdle == ConIdle /\ PhiIdle /\ EffIdle /\ ParIdle

ApiIdle == CutIdle /\ MiceIdle /\ CxIdle /\ RepIdle /\ LateIdle

DistInit ==
    /\ distC1 \in DistConstellations
    /\ distC2 \in DistConstellations
    /\ emdUndefined \in 0 .. MaxPhi
    /\ distPc = "idle"
    /\ distArgs = <<>>
    /\ distLocals = NoLocals
    /\ distResults = <<>>
    /\ FmIdle /\ BmIdle /\ ApiIdle

\* lines 150-154: the two lists of unique concepts, and the branch
ConstellationDistanceCall ==
    /\ distPc = "idle"
    /\ Len(distResults) < 2
    /\ LET C1 == IF distResults = <<>> THEN distC1 ELSE distC2
           C2 == IF distResults = <<>> THEN distC2 ELSE distC1
       IN /\ distArgs' = <<C1, C2>>
          /\ distLocals' = [NoLocals EXCEPT !.only1 = OnlyIn(C1, C2),
                                            !.only2 = OnlyIn(C2, C1)]
          /\ distPc' = IF OnlyIn(C1, C2) = <<>> \/ OnlyIn(C2, C1) = <<>>
                       THEN "simple" ELSE "emd_masses"
    /\ UNCHANGED <<distC1, distC2, distResults, emdUndefined, fmVars, bmVars, apiVars>>

\* line 155: return _constellation_distance_simple(C1, C2, subsystem)
DistanceSimple ==
    /\ distPc = "simple"
    /\ distResults' = Append(distResults,
           [C1 |-> distArgs[1], C2 |-> distArgs[2], path |-> "simple",
            all_concepts |-> <<>>, d1 |-> <<>>, d2 |-> <<>>,
            value |-> constellation_distance_simple(distArgs[1], distArgs[2])])
    /\ distPc' = "idle"
    /\ UNCHANGED <<distC1, distC2, distArgs, distLocals, emdUndefined,
                   fmVars, bmVars, apiVars>>

\* lines 113-126: all_concepts, d1, d2 and the residual
DistanceEmdMasses ==
    /\ distPc = "emd_masses"
    /\ LET m == EmdMasses(distArgs[1], distArgs[2],
                          distLocals.only1, distLocals.only2)
       IN distLocals' = [distLocals EXCEPT !.all_concepts = m.all_concepts,
                                           !.d1 = m.d1, !.d2 = m.d2]
    /\ distPc' = "emd"
    /\ UNCHANGED <<distC1, distC2, distArgs, distResults, emdUndefined,
                   fmVars, bmVars, apiVars>>

\* lines 128-132: the ground distances and the call of utils.emd
DistanceEmd ==
    /\ distPc = "emd"
    /\ distResults' = Append(distResults,
           [C1 |-> distArgs[1], C2 |-> distArgs[2], path |-> "emd",
            all_concepts |-> distLocals.all_concepts,
            d1 |-> distLocals.d1, d2 |-> distLocals.d2,
            value |-> emd(distLocals.d1, distLocals.d2,
                          distance_matrix(distLocals.all_concepts),
                          emdUndefined)])
    /\ distPc' = "idle"
    /\ UNCHANGED <<distC1, distC2, distArgs, distLocals, emdUndefined,
                   fmVars, bmVars, apiVars>>

DistNext ==
    \/ ConstellationDistanceCall
    \/ DistanceSimple
    \/ DistanceEmdMasses
    \/ DistanceEmd

SpecDist == DistInit /\ [][DistNext]_vars


----------------------------------------------------------------------------
(* Claims about constellation_distance, checked under SpecDist. *)

\* the mass a distribution gives to concept c
MassOf(d, all_concepts, c) ==
    LET i == CHOOSE k \in 1 .. Len(all_concepts) : all_concepts[k] = c
    IN d[i]

\* the two distributions the call in progress hands to utils.emd
HandedToEmd == distPc = "emd"

\* C9: on the general path the two phi distributions handed to the EMD,
\* after the residual is assigned to the null concept, have equal sums and
\* no negative entry, whichever constellation is the heavier one.
C9_MassConservation ==
    HandedToEmd =>
        /\ SeqSum(distLocals.d1) = SeqSum(distLocals.d2)
        /\ \A i \in 1 .. Len(distLocals.d1) :
               distLocals.d1[i] >= 0 /\ distLocals.d2[i] >= 0

\* the two calls, on (C1, C2) and on (C2, C1), have both returned
BothReturned == Len(distResults) = 2

\* the distributions of the second call are those of the first one, swapped
MassesSwapped(r1, r2) ==
    /\ Range(r1.all_concepts) = Range(r2.all_concepts)
    /\ \A c \in Range(r1.all_concepts) :
          /\ MassOf(r1.d1, r1.all_concepts, c) = MassOf(r2.d2, r2.all_concepts, c)
          /\ MassOf(r1.d2, r1.all_concepts, c) = MassOf(r2.d1, r2.all_concepts, c)

\* C10: constellation_distance(C1, C2, s) = constellation_distance(C2, C1, s)
\* on both paths, and on the general path the distributions handed to the
\* EMD for (C2, C1) are those for (C1, C2) swapped.
C10_Symmetric ==
    BothReturned =>
        /\ distResults[1].value = distResults[2].value
        /\ distResults[1].path = distResults[2].path
        /\ distResults[1].path = "emd" =>
               MassesSwapped(distResults[1], distResults[2])

\* what remains true of the code: the simple path is symmetric, and so is
\* the general path between constellations of equal total phi
DistSymmetricWhenBalanced ==
    BothReturned =>
        /\ distResults[1].path = distResults[2].path
        /\ (distResults[1].path = "simple"
            \/ SeqSum(PhiDistribution(distC1, distC1))
                 = SeqSum(PhiDistribution(distC2, distC2)))
           => distResults[1].value = distResults[2].value

\* what remains true of the code: the masses balance when C1 is the heavier
MassConservedWhenFirstHeavier ==
    (HandedToEmd /\ SeqSum(PhiDistribution(distArgs[1], distArgs[1]))
                      >= SeqSum(PhiDistribution(distArgs[2], distArgs[2])))
    => ValidMasses(distLocals.d1, distLocals.d2)

\* C11: constellation_distance(C, C, s) = 0 for every constellation C, the
\* empty one included: the call takes the simple path, finds no concept
\* unique to either side and no destroyed concept.
C11_DistanceToItselfIsZero ==
    \A i \in 1 .. Len(distResults) :
        distResults[i].C1 = distResults[i].C2 =>
            /\ distResults[i].path = "simple"
            /\ distResults[i].value = 0
            /\ OnlyIn(distResults[i].C1, distResults[i].C2) = <<>>
            /\ OnlyIn(distResults[i].C2, distResults[i].C1) = <<>>

\* both calls returned for a constellation of three concepts compared with
\* itself
C11_Witness ==
    /\ BothReturned
    /\ distC1 = distC2
    /\ Len(distC1) = 3
    /\ distResults[1].C1 = distC1 /\ distResults[1].C2 = distC1
    /\ distResults[1].value = 0


----------------------------------------------------------------------------
(* Bipartitions (utils.bipartition) and the candidate partitions of a      *)
(* mechanism over a purview (Subsystem.mip_bipartition).                   *)

RECURSIVE Pow2(_)
Pow2(n) == IF n <= 0 THEN 1 ELSE 2 * Pow2(n - 1)

\* bit n of i
Bit(i, n) == (i \div Pow2(n)) % 2

\* utils.bipartition(a) for the sorted tuple of the set S: the 2^(N-1)
\* bipartitions of S, the trivial one (empty, S) first; none for the empty
\* tuple.  A part is the set of its nodes.
bipartition(S) ==
    LET a == SortedTuple(S)
        N == Len(a)
    IN IF N = 0 THEN <<>>
       ELSE [k \in 1 .. Pow2(N - 1) |->
               <<{a[n] : n \in {m \in 1 .. N : Bit(k - 1, m - 1) = 1}},
                 {a[n] : n \in {m \in 1 .. N : Bit(k - 1, m - 1) = 0}}>>]

\* a_part
Part(mechanism, purview) == [mechanism |-> mechanism, purview |-> purview]

\* x[::-1] of a pair
Reversed(x) == <<x[2], x[1]>>

\* the validity test of mip_bipartition (lines 394-398)
valid_partition(numerators, denominators) ==
    /\ numerators[1] \cap denominators[1] = {}
    /\ numerators[2] \cap denominators[2] = {}
    /\ Cardinality(numerators[1]) + Cardinality(denominators[1]) > 0
    /\ Cardinality(numerators[2]) + Cardinality(denominators[2]) > 0

RECURSIVE Flatten(_)
Flatten(ss) == IF ss = <<>> THEN <<>> ELSE Head(ss) \o Flatten(Tail(ss))

\* the sequence of (part0, part1) pairs the generator yields, in order
mip_bipartition(mechanism, purview) ==
    LET purview_bipartitions == bipartition(purview)
        denominators == purview_bipartitions \o
            [i \in 1 .. Len(purview_bipartitions) |->
                Reversed(purview_bipartitions[i])]
        numerators == bipartition(mechanism)
        inner(d) == [j \in 1 .. Len(numerators) |->
            IF valid_partition(numerators[j], d)
            THEN <<<<Part(numerators[j][1], d[1]), Part(numerators[j][2], d[2])>>>>
            ELSE <<>>]
    IN Flatten([i \in 1 .. Len(denominators) |-> Flatten(inner(denominators[i]))])


----------------------------------------------------------------------------
(* SpecFindMip: Subsystem.find_mip(direction, mechanism, purview).         *)

\* the threshold below which phi is taken to be zero: 10**-10
EPSILON == 10

\* float('inf'): above every distance of the model
inf == EPSILON + MaxExcess + 1

\* the distances a candidate's repertoire can have from the unpartitioned
\* one: zero, just below the threshold, the threshold, and above it
Differences == {0, EPSILON - 1} \cup (EPSILON .. (EPSILON + MaxExcess))

\* the direction arguments a caller may pass; the last one is not valid
Directions == {"past", "future", "sideways"}

\* cause_repertoire / effect_repertoire, as the term that names the result
get_repertoire(direction, mechanism, purview) ==
    [direction |-> direction, mechanism |-> mechanism, purview |-> purview]

\* the product of the repertoires of the two parts (lines 448-451)
partitioned_repertoire(direction, part0, part1) ==
    <<get_repertoire(direction, part0.mechanism, part0.purview),
      get_repertoire(direction, part1.mechanism, part1.purview)>>

\* a_mip, and the value None
a_mip(partition, repertoire, difference) ==
    [kind |-> "mip", partition |-> partition, repertoire |-> repertoire,
     difference |-> difference]

None == [kind |-> "None", partition |-> <<>>, repertoire |-> <<>>,
         difference |-> 0]

ValueError == [kind |-> "ValueError", partition |-> <<>>, repertoire |-> <<>>,
               difference |-> 0]

\* a faulty variant of Reducible: the distance is compared with zero, not with EPSILON
ReducibleAtZero(difference) == difference <= 0

\* line 464: if difference < EPSILON
Reducible(difference) == difference < EPSILON

\* a faulty variant of MoreMinimal: a candidate tied with the minimum replaces it
MoreMinimalOrTied(difference, difference_min) == difference <= difference_min

\* line 468: if (difference < difference_min)
MoreMinimal(difference, difference_min) == difference < difference_min

FmInit ==
    /\ fmDirection \in Directions
    /\ fmMechanism \in SUBSET Nodes
    /\ fmPurview \in SUBSET Nodes
    /\ fmDistance \in
          [1 .. Len(mip_bipartition(fmMechanism, fmPurview)) -> Differences]
    /\ fmPc = "idle"
    /\ fmCandidates = <<>>
    /\ fmUnpartitioned = <<>>
    /\ fmIndex = 0
    /\ fmSeen = <<>>
    /\ fmDifferenceMin = 0
    /\ fmMip = None
    /\ fmResult = None
    /\ DistIdle /\ BmIdle /\ ApiIdle

\* lines 425-431: a direction that is neither 'past' nor 'future'
FindMipRaise ==
    /\ fmPc = "idle"
    /\ fmDirection \notin {"past", "future"}
    /\ fmResult' = ValueError
    /\ fmPc' = "raised"
    /\ UNCHANGED <<fmDirection, fmMechanism, fmPurview, fmDistance,
                   fmCandidates, fmUnpartitioned, fmIndex, fmSeen,
                   fmDifferenceMin, fmMip, distVars, bmVars, apiVars>>

\* lines 425-444: the repertoire is chosen, mip and difference_min are
\* initialised, the unpartitioned repertoire is computed and the generator
\* of candidates is created
FindMipCall ==
    /\ fmPc = "idle"
    /\ fmDirection \in {"past", "future"}
    /\ fmMip' = None
    /\ fmUnpartitioned' = get_repertoire(fmDirection, fmMechanism, fmPurview)
    /\ fmDifferenceMin' = inf
    /\ fmCandidates' = mip_bipartition(fmMechanism, fmPurview)
    /\ fmIndex' = 0
    /\ fmPc' = "loop"
    /\ UNCHANGED <<fmDirection, fmMechanism, fmPurview, fmDistance, fmSeen,
                   fmResult, distVars, bmVars, apiVars>>

\* lines 444-472: one iteration of the loop over the candidates
FindMipIterate ==
    /\ fmPc = "loop"
    /\ fmIndex < Len(fmCandidates)
    /\ LET part0 == fmCandidates[fmIndex + 1][1]
           part1 == fmCandidates[fmIndex + 1][2]
           repertoire == partitioned_repertoire(fmDirection, part0, part1)
           difference == fmDistance[fmIndex + 1]
       IN /\ fmIndex' = fmIndex + 1
          /\ fmSeen' = Append(fmSeen, difference)
          /\ IF Reducible(difference)
             THEN /\ fmResult' = None
                  /\ fmPc' = "returned"
                  /\ UNCHANGED <<fmDifferenceMin, fmMip>>
             ELSE /\ IF MoreMinimal(difference, fmDifferenceMin)
                     THEN /\ fmDifferenceMin' = difference
                          /\ fmMip' = a_mip(<<part0, part1>>, repertoire,
                                            difference)
                     ELSE UNCHANGED <<fmDifferenceMin, fmMip>>
                  /\ UNCHANGED <<fmResult, fmPc>>
    /\ UNCHANGED <<fmDirection, fmMechanism, fmPurview, fmDistance,
                   fmCandidates, fmUnpartitioned, distVars, bmVars, apiVars>>

\* line 473: the generator is exhausted, return mip
FindMipReturn ==
    /\ fmPc = "loop"
    /\ fmIndex = Len(fmCandidates)
    /\ fmResult' = fmMip
    /\ fmPc' = "returned"
    /\ UNCHANGED <<fmDirection, fmMechanism, fmPurview, fmDistance,
                   fmCandidates, fmUnpartitioned, fmIndex, fmSeen,
                   fmDifferenceMin, fmMip, distVars, bmVars, apiVars>>

FmNext ==
    \/ FindMipRaise
    \/ FindMipCall
    \/ FindMipIterate
    \/ FindMipReturn

SpecFindMip == FmInit /\ [][FmNext]_vars

----------------------------------------------------------------------------
(* Claims about find_mip, checked under SpecFindMip. *)

\* the candidates whose distance is below the threshold
BelowThreshold == {i \in 1 .. Len(fmCandidates) : fmDistance[i] < EPSILON}

\* C6: find_mip returns None whenever some candidate of mip_bipartition has
\* a distance below 1e-10; it returns at the first such candidate, and no
\* later candidate is evaluated.
C6_ReducibleReturnsNone ==
    (fmPc = "returned" /\ BelowThreshold # {}) =>
        /\ fmResult = None
        /\ fmIndex = SetMin(BelowThreshold)
        /\ Len(fmSeen) = SetMin(BelowThreshold)

\* a call returned None at a candidate that was below the threshold without
\* being zero, with candidates left unevaluated behind it
C6_Witness ==
    /\ fmPc = "returned"
    /\ BelowThreshold # {}
    /\ fmDistance[SetMin(BelowThreshold)] > 0
    /\ SetMin(BelowThreshold) > 1
    /\ SetMin(BelowThreshold) < Len(fmCandidates)
    /\ fmResult = None

\* the candidates of minimal distance
Minimal == {i \in 1 .. Len(fmCandidates) :
               \A j \in 1 .. Len(fmCandidates) : fmDistance[i] <= fmDistance[j]}

\* C7: when no candidate is below the threshold (and there is a candidate),
\* find_mip returns the first candidate of minimal distance; partition,
\* repertoire and difference of the returned MIP are that candidate's.
C7_ReturnsFirstMinimal ==
    (fmPc = "returned" /\ BelowThreshold = {} /\ fmCandidates # <<>>) =>
        LET i == SetMin(Minimal)
        IN /\ fmResult.kind = "mip"
           /\ fmResult.partition = fmCandidates[i]
           /\ fmResult.repertoire =
                 partitioned_repertoire(fmDirection, fmCandidates[i][1],
                                        fmCandidates[i][2])
           /\ fmResult.difference = fmDistance[i]
           /\ \A j \in 1 .. Len(fmCandidates) :
                 fmDistance[j] >= fmResult.difference
           /\ Len(fmSeen) = Len(fmCandidates)

\* a call returned a MIP that is tied at the minimum with a later candidate
\* and that is not the first candidate
C7_Witness ==
    /\ fmPc = "returned"
    /\ BelowThreshold = {}
    /\ Cardinality(Minimal) > 1
    /\ SetMin(Minimal) > 1
    /\ fmResult.kind = "mip"
    /\ fmResult.partition = fmCandidates[SetMin(Minimal)]

\* the generator of candidates has been created for the call's arguments
CandidatesMade == fmPc \in {"loop", "returned"}

\* every bipartition of the purview in both orientations, crossed with every
\* bipartition of the mechanism
Combinations(mechanism, purview) ==
    {<<Part(n[1], d[1]), Part(n[2], d[2])>> :
        n \in Range(bipartition(mechanism)),
        d \in Range(bipartition(purview))
                \cup {Reversed(x) : x \in Range(bipartition(purview))}}

\* the two mechanism-halves are disjoint, the two purview-halves are
\* disjoint, and neither Part has both its mechanism and its purview empty
KeptByTheRule(c) ==
    /\ c[1].mechanism \cap c[2].mechanism = {}
    /\ c[1].purview \cap c[2].purview = {}
    /\ ~(c[1].mechanism = {} /\ c[1].purview = {})
    /\ ~(c[2].mechanism = {} /\ c[2].purview = {})

\* no node is both in the mechanism and in the purview of one Part
NoNodeOnBothSides(c) ==
    /\ c[1].mechanism \cap c[1].purview = {}
    /\ c[2].mechanism \cap c[2].purview = {}

\* C16: mip_bipartition(mechanism, purview) yields exactly the combinations
\* of a purview bipartition (either orientation) with a mechanism
\* bipartition in which the mechanism-halves are disjoint, the
\* purview-halves are disjoint and neither Part is empty on both sides; none
\* of them is omitted, for example (A/A) x (B/B) for AB over AB.
C16_YieldsEveryValidCombination ==
    CandidatesMade =>
        Range(fmCandidates) =
            {c \in Combinations(fmMechanism, fmPurview) : KeptByTheRule(c)}

\* what remains true of the code: it yields the combinations the rule keeps
\* in which, besides, no node is on both sides of a Part; each of them once
C16_Holds_WithoutOverlap ==
    CandidatesMade =>
        /\ Range(fmCandidates) =
              {c \in Combinations(fmMechanism, fmPurview) :
                  KeptByTheRule(c) /\ NoNodeOnBothSides(c)}
        /\ \A i, j \in 1 .. Len(fmCandidates) :
              fmCandidates[i] = fmCandidates[j] => i = j


----------------------------------------------------------------------------
(* Networks, subsystems and cuts. *)

\* The connectivity matrices of the model, each the set of its edges
\* <<from, to>>: no connection; one one-way edge; a two-node loop beside an
\* isolated node; a one-way chain; a three-node cycle; all-to-all with
\* self-loops.
Networks ==
    { {},
      {<<0, 1>>},
      {<<0, 1>>, <<1, 0>>},
      {<<0, 1>>, <<1, 2>>},
      {<<0, 1>>, <<1, 2>>, <<2, 0>>},
      Nodes \X Nodes }

\* models.Cut / a_cut: connections from severed to intact are cut
Cut(severed, intact) == [severed |-> severed, intact |-> intact]

\* Subsystem(node_indices, network, cut=..., mice_cache=...).  The network,
\* and with it current_state and past_state, is the one network of the
\* behaviour, so two subsystems have the same content when they have the same
\* nodes.
Subsystem(nodes, cut, mice_cache) ==
    [nodes |-> nodes, cut |-> cut, mice_cache |-> mice_cache]

\* the state of the private MICE cache of an instance: empty or filled
MiceCaches == {0, 1}

\* the cut a subsystem is constructed with: nothing is severed
NullCut(nodes) == Cut({}, nodes)

\* the cuts Subsystem.cut accepts: the two halves hold every node once
ValidCuts(nodes) == {Cut(A, nodes \ A) : A \in SUBSET nodes}

\* the subsystems a caller can hand to concept
Subsystems ==
    UNION {{Subsystem(ns, c, m) : c \in ValidCuts(ns), m \in MiceCaches} :
           ns \in SUBSET Nodes}

\* the cut that severs the first node of a subsystem from the others
CallCuts(ns) == {Cut({n}, ns \ {n}) : n \in {m \in ns : m = SetMin(ns)}}

\* the subsystems handed to big_mip: a fresh instance, uncut and with an empty
\* MICE cache, or a clone as _evaluate_partition builds them, cut and sharing
\* a filled MICE cache
CallSubsystems ==
    UNION {{Subsystem(ns, NullCut(ns), 0)}
              \cup {Subsystem(ns, c, 1) : c \in CallCuts(ns)} :
           ns \in SUBSET Nodes}

\* Subsystem.__eq__: node sets, states and network; not the cut
SubsystemEq(s1, s2) == s1.nodes = s2.nodes

\* a faulty variant of SubsystemHash: the cut takes part in the hash
SubsystemHashWithCut(s) ==
    SetSum({Pow2(n) : n \in s.nodes})
        + Pow2(NetworkSize) * SetSum({Pow2(n) : n \in s.cut.severed})

\* Subsystem.__hash__: the hash of (frozenset(nodes), states, network), here
\* the frozenset as a bit mask
SubsystemHash(s) == SetSum({Pow2(n) : n \in s.nodes})

\* a connection a -> b as the subsystem sees it: in the connectivity matrix
\* and not severed by the subsystem's cut
Connects(s, a, b) ==
    /\ <<a, b>> \in cm
    /\ ~(a \in s.cut.severed /\ b \in s.cut.intact)

\* Subsystem._all_connect_to_any(nodes1, nodes2): every node of nodes1 has a
\* connection to some node of nodes2
all_connect_to_any(s, nodes1, nodes2) ==
    \A a \in nodes1 : \E b \in nodes2 : Connects(s, a, b)

\* Subsystem._any_connect_to_all(nodes1, nodes2): every node of nodes2 has a
\* connection from some node of nodes1
any_connect_to_all(s, nodes1, nodes2) ==
    \A b \in nodes2 : \E a \in nodes1 : Connects(s, a, b)

----------------------------------------------------------------------------
(* concept and constellation (compute.py lines 27-74). *)

\* the connections the cut of s severs that touch the mechanism
SeveredAt(s, mechanism) ==
    {e \in cm : /\ e[1] \in s.cut.severed /\ e[2] \in s.cut.intact
                /\ (e[1] \in mechanism \/ e[2] \in mechanism)}

\* concept_caching.concept: the concept the MICE search finds for a mechanism
\* that passed the prechecks.  Its phi is a function of the subsystem, its
\* cut and the mechanism; `seed` selects which function.
cached_concept(s, mechanism) ==
    Concept(mechanism,
            (seed + MechIndex(mechanism)
                  + Cardinality(SeveredAt(s, mechanism))) % (MaxPhi + 1),
            MechIndex(mechanism), MechIndex(mechanism))

\* a faulty variant of Prechecks: one of the two connectivity tests is enough
PrechecksEither(s, mechanism) ==
    \/ all_connect_to_any(s, mechanism, s.nodes)
    \/ any_connect_to_all(s, s.nodes, mechanism)

\* lines 53-54: every mechanism node has an output to, and an input from,
\* the subsystem
Prechecks(s, mechanism) ==
    /\ all_connect_to_any(s, mechanism, s.nodes)
    /\ any_connect_to_all(s, s.nodes, mechanism)

\* whether concept(s, mechanism) reaches line 58 and calls the cached search
CallsSearch(s, mechanism) == mechanism # {} /\ Prechecks(s, mechanism)

concept(s, mechanism) ==
    IF mechanism = {} THEN null_concept
    ELSE IF ~Prechecks(s, mechanism)
         THEN Concept(mechanism, 0, NoMice, NoMice)
         ELSE cached_concept(s, mechanism)

\* Concept.__bool__, used by filter(None, concepts): phi is not zero
ConceptBool(c) == c.phi # 0

constellation(s) ==
    LET ms == powerset(s.nodes)
        concepts == [i \in 1 .. Len(ms) |-> concept(s, ms[i])]
    IN SelectSeq(concepts, ConceptBool)


----------------------------------------------------------------------------
(* SpecConcept: direct calls of concept(subsystem, mechanism). *)

NoConceptCall ==
    [subsystem |-> Subsystem({}, NullCut({}), 0), mechanism |-> {},
     result |-> null_concept, searches |-> 0, made |-> FALSE]

ConceptInit ==
    /\ cm \in Networks
    /\ seed \in 0 .. MaxPhi
    /\ conceptCall = NoConceptCall
    /\ policy = FALSE /\ cache = <<>> /\ pc = "off"
    /\ subsystem = <<>> /\ cacheKey = 0 /\ bipartitions = <<>>
    /\ unpartitioned = <<>> /\ mipCandidates = <<>> /\ result = <<>>
    /\ trace = <<>> /\ firstResult = <<>> /\ calls = 0 /\ repeated = FALSE
    /\ DistIdle /\ FmIdle /\ ApiIdle

\* concept(s, mechanism), lines 44-58; `searches` counts the calls of the
\* cached concept computation made by this call.  concept keeps no state of
\* its own, so one call per behaviour shows all it can do.
ConceptCall(s, mechanism) ==
    /\ ~conceptCall.made
    /\ conceptCall' = [subsystem |-> s, mechanism |-> mechanism,
                       result |-> concept(s, mechanism),
                       searches |-> IF CallsSearch(s, mechanism) THEN 1 ELSE 0,
                       made |-> TRUE]
    /\ UNCHANGED <<cm, policy, seed, cache, pc, subsystem, cacheKey,
                   bipartitions, unpartitioned, mipCandidates, result, trace,
                   firstResult, calls, repeated, distVars, fmVars, apiVars>>

ConceptNext ==
    \E s \in Subsystems : \E mechanism \in SUBSET s.nodes :
        ConceptCall(s, mechanism)

SpecConcept == ConceptInit /\ [][ConceptNext]_vars

\* some node of the mechanism has no input from any node of the subsystem,
\* or no output to any node of the subsystem (cut connections do not count)
FailsConnectivity(s, mechanism) ==
    \E n \in mechanism :
        \/ ~\E a \in s.nodes : <<a, n>> \in cm
                               /\ ~(a \in s.cut.severed /\ n \in s.cut.intact)
        \/ ~\E b \in s.nodes : <<n, b>> \in cm
                               /\ ~(n \in s.cut.severed /\ b \in s.cut.intact)

\* the whole mechanism has no input from, or no output to, the subsystem
MechanismCutOff(s, mechanism) ==
    \/ ~\E a \in s.nodes, n \in mechanism : Connects(s, a, n)
    \/ ~\E b \in s.nodes, n \in mechanism : Connects(s, n, b)

----------------------------------------------------------------------------
(* big_mip (compute.py lines 172-293). *)

\* the value None of a constellation field of a BigMip; no constellation
\* equals it
NoConstellation == <<Concept({}, NoMice, NoMice, NoMice)>>

\* models.BigMip
BigMip(phi, unpartitioned_constellation, partitioned_constellation, s) ==
    [phi |-> phi,
     unpartitioned_constellation |-> unpartitioned_constellation,
     partitioned_constellation |-> partitioned_constellation,
     subsystem |-> s]

\* equality of two BigMips by value: the subsystems compare with __eq__
BigMipEq(m1, m2) ==
    /\ m1.phi = m2.phi
    /\ m1.unpartitioned_constellation = m2.unpartitioned_constellation
    /\ m1.partitioned_constellation = m2.partitioned_constellation
    /\ SubsystemEq(m1.subsystem, m2.subsystem)

null_mip(s) == BigMip(0, <<>>, <<>>, s)

\* the phi of a single node when the policy gives it one: 0.5
SINGLE_NODE_PHI == 5

\* a faulty variant of single_node_mip: the policy flag is not consulted
single_node_mip_always_null(s, flag) == null_mip(s)

\* _single_node_mip, with constants.SINGLE_NODES_WITH_SELFLOOPS_HAVE_PHI
single_node_mip(s, flag) ==
    IF flag THEN BigMip(SINGLE_NODE_PHI, NoConstellation, NoConstellation, s)
    ELSE null_mip(s)

\* the nodes that a and b being joined by an edge of either direction links,
\* inside `nodes`, to the nodes of `from`
RECURSIVE WeaklyReached(_, _)
WeaklyReached(from, nodes) ==
    LET more == {b \in nodes : \E a \in from :
                    <<a, b>> \in cm \/ <<b, a>> \in cm}
    IN IF more \subseteq from THEN from
       ELSE WeaklyReached(from \cup more, nodes)

\* connected_components(csr_matrix(cm)) with scipy's defaults (directed=True,
\* connection='weak') on the submatrix of the subsystem's nodes: the number
\* of weakly connected components
num_components(nodes) ==
    Cardinality({WeaklyReached({a}, nodes) : a \in nodes})

\* a faulty variant of Degenerate: two components still count as connected
DegenerateAboveTwo(s) == num_components(s.nodes) > 2

\* line 259: if num_components > 1
Degenerate(s) == num_components(s.nodes) > 1

\* the first element of least phi: min() over BigMips, which order by phi
RECURSIVE MinMip(_)
MinMip(mips) ==
    IF Len(mips) = 1 THEN mips[1]
    ELSE LET rest == MinMip(Tail(mips))
         IN IF rest.phi < mips[1].phi THEN rest ELSE mips[1]

\* a faulty variant of evaluate_partition: only the forward cut is evaluated
evaluate_partition_forward(uncut_subsystem, partition, unpartitioned_constellation) ==
    LET forward_cut_subsystem ==
            Subsystem(uncut_subsystem.nodes, Cut(partition[1], partition[2]),
                      uncut_subsystem.mice_cache)
        forward_constellation == constellation(forward_cut_subsystem)
    IN BigMip(constellation_distance(unpartitioned_constellation,
                                     forward_constellation, emdUndefined),
              unpartitioned_constellation, forward_constellation,
              uncut_subsystem)

\* _evaluate_partition (lines 200-232)
evaluate_partition(uncut_subsystem, partition, unpartitioned_constellation) ==
    LET forward_cut == Cut(partition[1], partition[2])
        forward_cut_subsystem ==
            Subsystem(uncut_subsystem.nodes, forward_cut,
                      uncut_subsystem.mice_cache)
        forward_constellation == constellation(forward_cut_subsystem)
        forward_mip ==
            BigMip(constellation_distance(unpartitioned_constellation,
                                          forward_constellation, emdUndefined),
                   unpartitioned_constellation, forward_constellation,
                   uncut_subsystem)
        backward_cut == Cut(partition[2], partition[1])
        backward_cut_subsystem ==
            Subsystem(uncut_subsystem.nodes, backward_cut,
                      uncut_subsystem.mice_cache)
        backward_constellation == constellation(backward_cut_subsystem)
        backward_mip ==
            BigMip(constellation_distance(unpartitioned_constellation,
                                          backward_constellation, emdUndefined),
                   unpartitioned_constellation, backward_constellation,
                   uncut_subsystem)
    IN MinMip(<<forward_mip, backward_mip>>)

\* no call has returned yet
NoBigMip == BigMip(NoMice, NoConstellation, NoConstellation,
                   Subsystem({}, NullCut({}), 0))


----------------------------------------------------------------------------
(* Spec: calls of big_mip, step by step, with the cache of _big_mip. *)

Init ==
    /\ cm \in Networks
    /\ policy \in BOOLEAN
    /\ seed \in 0 .. MaxPhi
    /\ emdUndefined \in {0, MaxPhi}
    /\ cache = <<>>
    /\ pc = "idle"
    /\ subsystem = Subsystem({}, NullCut({}), 0)
    /\ cacheKey = 0
    /\ bipartitions = <<>>
    /\ unpartitioned = <<>>
    /\ mipCandidates = <<>>
    /\ result = NoBigMip
    /\ trace = <<>>
    /\ firstResult = <<>>
    /\ calls = 0
    /\ repeated = FALSE
    /\ conceptCall = NoConceptCall
    /\ DistRest /\ FmIdle /\ ApiIdle

\* the content of a subsystem: what __eq__ compares
Content(s) == s.nodes

\* the call returns r: memory.cache stores it under the key of the call
Return(r) ==
    /\ result' = r
    /\ cache' = (cacheKey :> r) @@ cache
    /\ firstResult' = IF Content(subsystem) \in DOMAIN firstResult
                      THEN firstResult
                      ELSE (Content(subsystem) :> r) @@ firstResult
    /\ pc' = "idle"

\* big_mip(s), lines 282-293 and the decorator of line 236: the key is
\* hash(subsystem); a stored result is returned without running _big_mip
BigMipCall(s) ==
    /\ pc = "idle"
    /\ SubsystemHash(s) \in DOMAIN cache \/ calls < MaxCalls
    /\ subsystem' = s
    /\ cacheKey' = SubsystemHash(s)
    /\ repeated' = (Content(s) \in DOMAIN firstResult)
    /\ trace' = <<>>
    /\ bipartitions' = <<>>
    /\ unpartitioned' = <<>>
    /\ mipCandidates' = <<>>
    /\ IF SubsystemHash(s) \in DOMAIN cache
       THEN /\ result' = cache[SubsystemHash(s)]
            /\ firstResult' = IF Content(s) \in DOMAIN firstResult
                              THEN firstResult
                              ELSE (Content(s) :> cache[SubsystemHash(s)])
                                       @@ firstResult
            /\ pc' = "idle"
            /\ UNCHANGED <<cache, calls>>
       ELSE /\ pc' = "single_node"
            /\ calls' = calls + 1
            /\ UNCHANGED <<result, firstResult, cache>>
    /\ UNCHANGED <<cm, policy, seed, conceptCall, distVars, fmVars, apiVars>>

\* lines 238-240
SingleNodeCheck ==
    /\ pc = "single_node"
    /\ trace' = Append(trace, "single_node_check")
    /\ IF Cardinality(subsystem.nodes) = 1
       THEN Return(single_node_mip(subsystem, policy))
       ELSE /\ pc' = "degenerate"
            /\ UNCHANGED <<result, cache, firstResult>>
    /\ UNCHANGED <<cm, policy, seed, subsystem, cacheKey, bipartitions,
                   unpartitioned, mipCandidates, calls, repeated, conceptCall,
                   distVars, fmVars, apiVars>>

\* lines 250-260
DegeneracyCheck ==
    /\ pc = "degenerate"
    /\ trace' = Append(trace, "degeneracy_check")
    /\ IF subsystem.nodes = {} \/ Degenerate(subsystem)
       THEN Return(null_mip(subsystem))
       ELSE /\ pc' = "search"
            /\ UNCHANGED <<result, cache, firstResult>>
    /\ UNCHANGED <<cm, policy, seed, subsystem, cacheKey, bipartitions,
                   unpartitioned, mipCandidates, calls, repeated, conceptCall,
                   distVars, fmVars, apiVars>>

\* lines 263-266: the nontrivial bipartitions and the unpartitioned
\* constellation
StartSearch ==
    /\ pc = "search"
    /\ bipartitions' = Tail(bipartition(subsystem.nodes))
    /\ unpartitioned' = constellation(subsystem)
    /\ mipCandidates' = <<>>
    /\ trace' = trace \o <<"bipartitions", "unpartitioned_constellation">>
    /\ pc' = "evaluate"
    /\ UNCHANGED <<cm, policy, seed, cache, subsystem, cacheKey, result,
                   firstResult, calls, repeated, conceptCall, distVars,
                   fmVars, apiVars>>

\* lines 268-273: the next bipartition is evaluated
EvaluatePartition ==
    /\ pc = "evaluate"
    /\ Len(mipCandidates) < Len(bipartitions)
    /\ mipCandidates' = Append(mipCandidates,
           evaluate_partition(subsystem, bipartitions[Len(mipCandidates) + 1],
                              unpartitioned))
    /\ trace' = Append(trace, "evaluate_partition")
    /\ UNCHANGED <<cm, policy, seed, cache, pc, subsystem, cacheKey,
                   bipartitions, unpartitioned, result, firstResult, calls,
                   repeated, conceptCall, distVars, fmVars, apiVars>>

\* line 275: return min(mip_candidates)
ReturnMin ==
    /\ pc = "evaluate"
    /\ Len(mipCandidates) = Len(bipartitions)
    /\ Return(MinMip(mipCandidates))
    /\ UNCHANGED <<cm, policy, seed, subsystem, cacheKey, bipartitions,
                   unpartitioned, mipCandidates, trace, calls, repeated,
                   conceptCall, distVars, fmVars, apiVars>>

Next ==
    \/ \E s \in CallSubsystems : BigMipCall(s)
    \/ SingleNodeCheck
    \/ DegeneracyCheck
    \/ StartSearch
    \/ EvaluatePartition
    \/ ReturnMin

Spec == Init /\ [][Next]_vars


----------------------------------------------------------------------------
(* Claims about big_mip, checked under Spec. *)

\* a call of big_mip has returned; `subsystem` is its argument, `result` its
\* value and `trace` the steps of _big_mip it ran (none on a cache hit)
Returned == pc = "idle" /\ result # NoBigMip

Ran(step) == step \in Range(trace)

SearchSteps == {"bipartitions", "unpartitioned_constellation",
                "evaluate_partition"}

\* the edges of the connectivity matrix between nodes of the subsystem
Induced(nodes) == {e \in cm : e[1] \in nodes /\ e[2] \in nodes}

\* the nodes reachable from `from` along the induced edges
RECURSIVE Reached(_, _)
Reached(from, nodes) ==
    LET more == {b \in nodes : \E a \in from : <<a, b>> \in cm}
    IN IF more \subseteq from THEN from
       ELSE Reached(from \cup more, nodes)

\* each node reaches every other one along the induced edges
StronglyConnected(nodes) ==
    \A a \in nodes : Reached({a}, nodes) = nodes

\* the nodes split into two nonempty groups with no edge between them
Disconnected(nodes) ==
    \E A \in (SUBSET nodes) \ {{}, nodes} :
        \A e \in Induced(nodes) : (e[1] \in A) <=> (e[2] \in A)

\* C2: for a subsystem of two or more nodes whose induced graph is not
\* strongly connected (more than one strongly connected component),
\* big_mip returns the null big-MIP and does not enter the bipartition
\* search.
C2_NotStronglyConnectedIsNull ==
    (Returned /\ Cardinality(subsystem.nodes) >= 2
              /\ ~StronglyConnected(subsystem.nodes)) =>
        /\ BigMipEq(result, null_mip(subsystem))
        /\ \A step \in SearchSteps : ~Ran(step)

\* what remains true of the code for such subsystems: the null big-MIP when
\* the induced graph is not even weakly connected
C2_Holds_WhenDisconnected ==
    (Returned /\ Cardinality(subsystem.nodes) >= 2
              /\ Disconnected(subsystem.nodes)) =>
        BigMipEq(result, null_mip(subsystem))

\* C3: for a subsystem of two or more nodes whose induced graph is
\* disconnected, big_mip returns the null MIP; the call runs the single-node
\* check and the degeneracy check and nothing else: no bipartition is
\* enumerated or evaluated and no constellation is computed.
C3_DisconnectedIsNull ==
    (Cardinality(subsystem.nodes) >= 2 /\ Disconnected(subsystem.nodes)) =>
        /\ pc \in {"idle", "single_node", "degenerate"}
        /\ \A step \in SearchSteps : ~Ran(step)
        /\ Returned =>
              /\ BigMipEq(result, null_mip(subsystem))
              /\ trace \in {<<>>, <<"single_node_check", "degeneracy_check">>}

\* _big_mip ran and returned for the three nodes of a network in which two
\* of them are connected to each other
C3_Witness ==
    /\ Returned
    /\ subsystem.nodes = Nodes
    /\ Disconnected(Nodes)
    /\ Induced(Nodes) # {}
    /\ trace = <<"single_node_check", "degeneracy_check">>
    /\ result = null_mip(subsystem)

\* C4: for a single-node subsystem big_mip returns phi = 0.5 when the policy
\* flag is true and the null MIP when it is false; the single-node check is
\* the only step that runs.
C4_SingleNode ==
    Cardinality(subsystem.nodes) = 1 =>
        /\ pc \in {"idle", "single_node"}
        /\ Range(trace) \subseteq {"single_node_check"}
        /\ Returned =>
              /\ policy => result.phi = SINGLE_NODE_PHI
              /\ ~policy => BigMipEq(result, null_mip(subsystem))

\* _big_mip ran and returned 0.5 for a single node under the policy
C4_Witness ==
    /\ Returned
    /\ Cardinality(subsystem.nodes) = 1
    /\ policy
    /\ trace = <<"single_node_check">>
    /\ result.phi = SINGLE_NODE_PHI

\* the bipartitions of a node set but the trivial one, each once: the first
\* group is the one that holds the least node
NontrivialBipartitions(nodes) ==
    {<<A, nodes \ A>> :
        A \in {X \in (SUBSET nodes) \ {{}, nodes} : SetMin(nodes) \in X}}

\* the distance from the unpartitioned constellation of s to the
\* constellation of s cut from A to B
CutDistance(s, A, B) ==
    constellation_distance(constellation(s),
                           constellation(Subsystem(s.nodes, Cut(A, B), 0)),
                           emdUndefined)

\* the number of times a step occurs in the trace
Times(step) == Cardinality({i \in 1 .. Len(trace) : trace[i] = step})

\* C5: for a subsystem of two or more nodes that is not degenerate, the phi
\* big_mip returns is the least, over the nontrivial bipartitions (A, B), of
\* min(distance to the constellation cut A -> B, distance to the
\* constellation cut B -> A); the unpartitioned constellation is computed
\* once.
C5_PhiIsMinOverBipartitions ==
    (Returned /\ Cardinality(subsystem.nodes) >= 2
              /\ ~Disconnected(subsystem.nodes)) =>
        /\ result.phi =
              SetMin({Min2(CutDistance(result.subsystem, p[1], p[2]),
                           CutDistance(result.subsystem, p[2], p[1])) :
                      p \in NontrivialBipartitions(subsystem.nodes)})
        /\ trace # <<>> => Times("unpartitioned_constellation") = 1

\* a search over three bipartitions returned a nonzero phi that one of the
\* bipartitions does not attain, and that only one direction of another
\* attains
C5_Witness ==
    /\ Returned
    /\ Len(mipCandidates) = 3
    /\ result.phi > 0
    /\ \E i \in 1 .. 3 : mipCandidates[i].phi > result.phi
    /\ \E p \in NontrivialBipartitions(subsystem.nodes) :
          /\ Min2(CutDistance(subsystem, p[1], p[2]),
                  CutDistance(subsystem, p[2], p[1])) = result.phi
          /\ CutDistance(subsystem, p[1], p[2]) #
                 CutDistance(subsystem, p[2], p[1])

\* C8: a call on a subsystem whose content (node set, states, network) an
\* earlier call had, whatever its cut and its private cache, returns a
\* result equal by value to the first one and runs no step of _big_mip; and
\* the cache holds that result for every subsystem of that content.
C8_RepeatedCallHitsCache ==
    /\ repeated =>
          /\ pc = "idle"
          /\ trace = <<>>
          /\ BigMipEq(result, firstResult[Content(subsystem)])
    /\ \A s \in CallSubsystems :
          Content(s) \in DOMAIN firstResult =>
              /\ SubsystemHash(s) \in DOMAIN cache
              /\ BigMipEq(cache[SubsystemHash(s)], firstResult[Content(s)])

\* a repeated call returned the nonzero result of a search from the cache,
\* for an instance with another cut and another private cache than the one
\* the result was computed for
C8_Witness ==
    /\ repeated
    /\ Returned
    /\ result.phi > 0
    /\ Cardinality(subsystem.nodes) >= 2
    /\ subsystem.cut # result.subsystem.cut
    /\ subsystem.mice_cache # result.subsystem.mice_cache


----------------------------------------------------------------------------
(* SpecCut: an instance of the class Subsystem (src/cyphi/subsystem.py),   *)
(* its constructor, cut, __eq__ and __hash__.                              *)

\* the nodes of the network the instance belongs to
CutNodes == {0, 1}

\* the tuples of at most n items of S
Tuples(S, n) == UNION {[1 .. k -> S] : k \in 0 .. n}

\* the tuples without a duplicate
DuplicateFree(S) ==
    {t \in Tuples(S, Cardinality(S)) :
        \A i, j \in 1 .. Len(t) : t[i] = t[j] => i = j}

\* the state vectors and the networks of the model, by name
StateVectors == {0, 1}
NetworkNames == {0, 1}

\* a_cut
a_cut(severed, intact) == [severed |-> severed, intact |-> intact]

\* Subsystem.__init__ (the fields __eq__, __hash__ and cut read)
NewSubsystem(nodes, current_state, past_state, network) ==
    [nodes |-> nodes, current_state |-> current_state,
     past_state |-> past_state, network |-> network,
     cut |-> a_cut(<<>>, nodes)]

\* Subsystem.__eq__
eq(self, other) ==
    /\ Range(self.nodes) = Range(other.nodes)
    /\ self.current_state = other.current_state
    /\ self.past_state = other.past_state
    /\ self.network = other.network

\* a faulty variant of hash: the cut takes part in it
hash_with_cut(self) ==
    <<Range(self.nodes), self.current_state, self.past_state, self.network,
      self.cut>>

\* Subsystem.__hash__: the hash of this tuple
hash(self) ==
    <<Range(self.nodes), self.current_state, self.past_state, self.network>>

\* an argument of cut: a bare node, or a tuple of nodes
NoNode == 0 - 1
BareNode(n) == [kind |-> "node", node |-> n, items |-> <<>>]
TupleOf(t) == [kind |-> "tuple", node |-> NoNode, items |-> t]
CutArguments ==
    {BareNode(n) : n \in CutNodes}
        \cup {TupleOf(t) : t \in Tuples(CutNodes, MaxCutLen)}

\* lines 94-97: a single node becomes a singleton tuple
as_tuple(argument) ==
    IF argument.kind # "tuple" THEN <<argument.node>> ELSE argument.items

\* a faulty variant of valid_cut: the lengths are not compared
valid_cut_by_set(nodes, severed, intact) ==
    Range(nodes) = Range(severed \o intact)

\* lines 99-100: the test a cut must pass
valid_cut(nodes, severed, intact) ==
    /\ Len(nodes) = Len(severed \o intact)
    /\ Range(nodes) = Range(severed \o intact)

CutInit ==
    /\ selfSub \in {NewSubsystem(t, 0, 0, 0) : t \in DuplicateFree(CutNodes)}
    /\ otherSub \in {NewSubsystem(t, c, q, n) :
                       t \in DuplicateFree(CutNodes), c \in StateVectors,
                       q \in StateVectors, n \in NetworkNames}
    /\ born = [hash |-> hash(selfSub), eq |-> eq(selfSub, otherSub)]
    /\ cutOutcome = "new"
    /\ shared = FALSE
    /\ DistIdle /\ FmIdle /\ BmIdle /\ MiceIdle /\ CxIdle /\ RepIdle
    /\ LateIdle

\* a faulty variant of SubsystemCut: the cut is stored before it is tested
SubsystemCutStoresFirst(severed_argument, intact_argument) ==
    LET severed == as_tuple(severed_argument)
        intact == as_tuple(intact_argument)
    IN /\ cutOutcome # "off"
       /\ selfSub' = [selfSub EXCEPT !.cut = a_cut(severed, intact)]
       /\ cutOutcome' = IF valid_cut(selfSub.nodes, severed, intact)
                        THEN "cut" ELSE "ValueError"
       /\ UNCHANGED <<otherSub, born, shared, coreVars, miceVars, cxVars,
                   repVars,
                   lateVars>>

\* Subsystem.cut(severed, intact), lines 91-104
SubsystemCut(severed_argument, intact_argument) ==
    LET severed == as_tuple(severed_argument)
        intact == as_tuple(intact_argument)
    IN /\ cutOutcome # "off"
       /\ IF ~valid_cut(selfSub.nodes, severed, intact)
          THEN /\ cutOutcome' = "ValueError"
               /\ UNCHANGED selfSub
          ELSE /\ selfSub' = [selfSub EXCEPT !.cut = a_cut(severed, intact)]
               /\ cutOutcome' = "cut"
       /\ UNCHANGED <<otherSub, born, shared, coreVars, miceVars, cxVars,
                   repVars,
                   lateVars>>

\* the instance is handed to a second holder, as big_mip hands the
\* subsystem to its workers
Share ==
    /\ cutOutcome # "off"
    /\ ~shared
    /\ shared' = TRUE
    /\ UNCHANGED <<selfSub, otherSub, born, cutOutcome, coreVars, miceVars, cxVars,
                   repVars,
                   lateVars>>

CutNext ==
    \/ \E severed \in CutArguments, intact \in CutArguments :
          SubsystemCut(severed, intact)
    \/ Share

SpecCut == CutInit /\ [][CutNext]_vars


----------------------------------------------------------------------------
(* Claims about the Subsystem instance, checked under SpecCut. *)

\* the number of places of a tuple that hold x
Occurrences(x, t) == Cardinality({i \in 1 .. Len(t) : t[i] = x})

\* C14: in every state of a Subsystem built from a duplicate-free node
\* collection, after construction and after any sequence of valid and invalid
\* cut calls (single nodes bare or in tuples), the severed and the intact
\* group of the stored cut hold together every node of the subsystem once
\* and no other node; the cut after construction is (empty, all nodes).
C14_CutCoversNodesOnce ==
    cutOutcome # "off" =>
        LET stored == selfSub.cut.severed \o selfSub.cut.intact
        IN /\ \A n \in Range(selfSub.nodes) : Occurrences(n, stored) = 1
           /\ Range(stored) \subseteq Range(selfSub.nodes)
           /\ cutOutcome = "new" => selfSub.cut = a_cut(<<>>, selfSub.nodes)

\* a call failed on a two-node subsystem whose stored cut, set by an
\* earlier call, severs the second node from the first
C14_Witness ==
    /\ cutOutcome = "ValueError"
    /\ Len(selfSub.nodes) = 2
    /\ selfSub.cut = a_cut(<<selfSub.nodes[2]>>, <<selfSub.nodes[1]>>)

\* C15: two subsystems that agree on node set, current_state, past_state
\* and network compare equal and have equal hashes, whatever the order of
\* their nodes and whatever their cuts; and no call of cut changes the hash
\* of a subsystem or what it compares equal to.
C15_IdentityIgnoresOrderAndCut ==
    cutOutcome # "off" =>
        /\ (/\ Range(selfSub.nodes) = Range(otherSub.nodes)
            /\ selfSub.current_state = otherSub.current_state
            /\ selfSub.past_state = otherSub.past_state
            /\ selfSub.network = otherSub.network)
           => eq(selfSub, otherSub) /\ eq(otherSub, selfSub)
                 /\ hash(selfSub) = hash(otherSub)
        /\ hash(selfSub) = born.hash
        /\ eq(selfSub, otherSub) = born.eq

\* the instance has been cut, and equals a second instance that holds the
\* same two nodes in the other order and is not cut
C15_Witness ==
    /\ cutOutcome = "cut"
    /\ Len(selfSub.nodes) = 2
    /\ otherSub.nodes = <<selfSub.nodes[2], selfSub.nodes[1]>>
    /\ selfSub.cut # otherSub.cut
    /\ selfSub.cut.severed # <<>>
    /\ eq(selfSub, otherSub)
    /\ hash(selfSub) = hash(otherSub)

\* C18: no operation of Subsystem changes the cut of an instance that is
\* shared: once a second holder has the instance, its cut stays what it was.
C18_SharedCutNeverChanges ==
    [][shared => selfSub'.cut = selfSub.cut]_vars

\* what remains true of the code: nodes, states and network of an instance
\* never change, shared or not
C18_Holds_ContentNeverChanges ==
    [][cutOutcome # "off" =>
          /\ selfSub'.nodes = selfSub.nodes
          /\ selfSub'.current_state = selfSub.current_state
          /\ selfSub'.past_state = selfSub.past_state
          /\ selfSub'.network = selfSub.network]_vars


\* what remains true of the code: big_mip itself never changes the
\* subsystem it was called with, from entry to return
C18_Holds_BigMipLeavesBase ==
    [][pc \notin {"off", "idle"} => subsystem' = subsystem]_vars


----------------------------------------------------------------------------
(* SpecMice: Subsystem.find_mice(direction, mechanism).                    *)

\* the nodes of the subsystem whose purviews are searched
MiceNodes == {0, 1}

\* A direction argument: a string, and whether it is the very object of the
\* literal of that value (the code compares with `is`).
DirectionArguments ==
    {[value |-> v, interned |-> b] : v \in Directions, b \in BOOLEAN}

\* direction is 'literal'
Is(direction, literal) == direction.value = literal /\ direction.interned

\* a_mice, the value None of its purview, and a purview that is a tuple
a_mice(purview, phi) == [kind |-> "mice", purview |-> purview, phi |-> phi]
NoPurview == [kind |-> "None", nodes |-> {}]
Purview(nodes) == [kind |-> "purview", nodes |-> nodes]

\* float('-inf'): below every distance of the model
neg_inf == 0 - inf

\* what find_mip can return for a purview: None, or a MIP whose difference
\* is not below EPSILON; None when mip_bipartition yields no candidate
FindMipOutcomes(mechanism, purview) ==
    {None} \cup
    IF mip_bipartition(mechanism, purview) = <<>> THEN {}
    ELSE {a_mip(mip_bipartition(mechanism, purview)[1], <<>>, d) :
             d \in EPSILON .. (EPSILON + MaxExcess)}

\* if mip: None is false, a namedtuple of three fields is true
Truthy(mip) == mip.kind # "None"

\* a faulty variant of Better: a tie never replaces the maximal purview
BetterByPhiOnly(phi, phi_max, purview, maximal_purview) ==
    IF phi > phi_max THEN "yes" ELSE "no"

\* lines 547-548: phi > phi_max or (phi == phi_max and len(purview) >
\* len(maximal_purview)); len(None) is a TypeError
Better(phi, phi_max, purview, maximal_purview) ==
    IF phi > phi_max THEN "yes"
    ELSE IF phi # phi_max THEN "no"
    ELSE IF maximal_purview.kind = "None" THEN "TypeError"
    ELSE IF Cardinality(purview) > Cardinality(maximal_purview.nodes)
         THEN "yes" ELSE "no"

MiceInit ==
    /\ miceDirection \in DirectionArguments
    /\ miceMechanism \in SUBSET MiceNodes
    /\ miceMips = <<>>
    /\ micePc = "idle"
    /\ miceIndex = 0
    /\ miceExamined = <<>>
    /\ micePhiMax = 0
    /\ miceMaximalPurview = NoPurview
    /\ miceResult = None
    /\ DistIdle /\ FmIdle /\ BmIdle /\ CutIdle /\ CxIdle /\ RepIdle
    /\ LateIdle

\* lines 529-534: the direction is neither 'past' nor 'future'
FindMiceRaise ==
    /\ micePc = "idle"
    /\ ~Is(miceDirection, "past") /\ ~Is(miceDirection, "future")
    /\ miceResult' = ValueError
    /\ micePc' = "raised"
    /\ UNCHANGED <<miceDirection, miceMechanism, miceMips, miceIndex,
                   miceExamined, micePhiMax, miceMaximalPurview, coreVars,
                   cutVars, cxVars, repVars,
                   lateVars>>

\* lines 529-538: find_mip is chosen, phi_max and maximal_purview are set
FindMiceCall ==
    /\ micePc = "idle"
    /\ Is(miceDirection, "past") \/ Is(miceDirection, "future")
    /\ micePhiMax' = neg_inf
    /\ miceMaximalPurview' = NoPurview
    /\ miceIndex' = 0
    /\ micePc' = "loop"
    /\ UNCHANGED <<miceDirection, miceMechanism, miceMips, miceExamined,
                   miceResult, coreVars, cutVars, cxVars, repVars,
                   lateVars>>

\* lines 541-550: one purview of powerset(self.nodes)
FindMiceIterate ==
    /\ micePc = "loop"
    /\ miceIndex < Len(powerset(MiceNodes))
    /\ \E mip \in FindMipOutcomes(miceMechanism,
                                   powerset(MiceNodes)[miceIndex + 1]) :
       LET purview == powerset(MiceNodes)[miceIndex + 1]
           better == IF Truthy(mip)
                     THEN Better(mip.difference, micePhiMax, purview,
                                 miceMaximalPurview)
                     ELSE "no"
       IN /\ miceIndex' = miceIndex + 1
          /\ miceExamined' = Append(miceExamined, purview)
          /\ miceMips' = Append(miceMips, mip)
          /\ IF better = "TypeError"
             THEN /\ miceResult' = [ValueError EXCEPT !.kind = "TypeError"]
                  /\ micePc' = "raised"
                  /\ UNCHANGED <<micePhiMax, miceMaximalPurview>>
             ELSE /\ IF better = "yes"
                     THEN /\ micePhiMax' = mip.difference
                          /\ miceMaximalPurview' = Purview(purview)
                     ELSE UNCHANGED <<micePhiMax, miceMaximalPurview>>
                  /\ UNCHANGED <<miceResult, micePc>>
    /\ UNCHANGED <<miceDirection, miceMechanism, coreVars, cutVars, cxVars, repVars,
                   lateVars>>

\* line 551: return mice(purview=maximal_purview, phi=phi_max)
FindMiceReturn ==
    /\ micePc = "loop"
    /\ miceIndex = Len(powerset(MiceNodes))
    /\ miceResult' = a_mice(miceMaximalPurview, micePhiMax)
    /\ micePc' = "returned"
    /\ UNCHANGED <<miceDirection, miceMechanism, miceMips, miceIndex,
                   miceExamined, micePhiMax, miceMaximalPurview, coreVars,
                   cutVars, cxVars, repVars,
                   lateVars>>

MiceNext ==
    \/ FindMiceRaise
    \/ FindMiceCall
    \/ FindMiceIterate
    \/ FindMiceReturn

SpecMice == MiceInit /\ [][MiceNext]_vars


----------------------------------------------------------------------------
(* Claims about find_mice, checked under SpecMice. *)

\* the purviews examined for which find_mip returned a MIP
Yielding == {i \in 1 .. Len(miceMips) : Truthy(miceMips[i])}

\* those of them whose MIP has the largest difference
Largest == {i \in Yielding :
               \A j \in Yielding :
                   miceMips[j].difference <= miceMips[i].difference}

\* C17: find_mice examines every subset of the subsystem's nodes, the empty
\* one included, as purview; it returns the purview of largest MIP distance
\* among those for which find_mip returns a MIP, and among purviews tied at
\* that distance one with the most nodes; with no such purview it returns
\* purview None and phi -infinity; it never fails on the comparison with the
\* maximal purview that is not set yet.
C17_MaximalPurview ==
    /\ micePc = "returned" =>
          /\ Len(miceExamined) = Cardinality(SUBSET MiceNodes)
          /\ Range(miceExamined) = SUBSET MiceNodes
          /\ miceResult.kind = "mice"
          /\ Yielding = {} =>
                miceResult = a_mice(NoPurview, neg_inf)
          /\ Yielding # {} =>
                \E i \in Largest :
                    /\ miceResult.phi = miceMips[i].difference
                    /\ miceResult.purview = Purview(miceExamined[i])
                    /\ \A j \in Largest :
                          Cardinality(miceExamined[j])
                              <= Cardinality(miceExamined[i])
    /\ micePc = "raised" =>
          /\ miceResult.kind = "ValueError"
          /\ miceExamined = <<>>

\* find_mice returned the two-node purview, which ties at the largest
\* distance with a one-node purview examined before it
C17_Witness ==
    /\ micePc = "returned"
    /\ miceResult.kind = "mice"
    /\ miceResult.purview = Purview(MiceNodes)
    /\ \E i \in Largest : Cardinality(miceExamined[i]) = 1
    /\ \E i \in Yielding : i \notin Largest


----------------------------------------------------------------------------
(* SpecComplexes: main_complex, complexes and subsystems (compute.py).     *)
(* The network of the call is `cm` on the nodes 0 .. size - 1.             *)

\* network.size of the networks of the model
NetworkSizes == {NetworkSize - 1, NetworkSize}

\* the connectivity matrices of a network of that size: every matrix of a
\* two-node network, self-loops included
CxNetworks(size) ==
    IF size = NetworkSize THEN Networks
    ELSE SUBSET ((0 .. (size - 1)) \X (0 .. (size - 1)))

\* what the caller passes: a Network, or (the mistake the message names) a
\* Subsystem
CxArguments ==
    [instance_of : {"Network", "Subsystem"}, size : NetworkSizes]

\* isinstance(network, Network)
isinstance(argument, class) == argument.instance_of = class

\* big_mip(subsystem) as one value: what the steps SingleNodeCheck,
\* DegeneracyCheck, StartSearch, EvaluatePartition and ReturnMin return
big_mip(s) ==
    IF Cardinality(s.nodes) = 1 THEN single_node_mip(s, policy)
    ELSE IF s.nodes = {} \/ Degenerate(s) THEN null_mip(s)
    ELSE LET parts == Tail(bipartition(s.nodes))
             unpartitioned_constellation == constellation(s)
         IN MinMip([i \in 1 .. Len(parts) |->
                       evaluate_partition(s, parts[i],
                                          unpartitioned_constellation)])

\* the subsets subsystems(network) walks through: powerset(range(size))
CxSubsets(argument) == powerset(0 .. (argument.size - 1))

\* two BigMips that no ordered comparison can tell apart: the same phi and
\* the same constellations
SameRank(m1, m2) ==
    /\ m1.phi = m2.phi
    /\ m1.unpartitioned_constellation = m2.unpartitioned_constellation
    /\ m1.partitioned_constellation = m2.partitioned_constellation

\* a faulty variant of max_mips: of the items of greatest phi the last one
\* is kept
max_mips_last(mips) ==
    LET greatest == {i \in 1 .. Len(mips) :
                        \A j \in 1 .. Len(mips) : mips[j].phi <= mips[i].phi}
    IN {mips[i] : i \in {k \in greatest : \A j \in greatest : j <= k}}

\* max(mips), the values it can return.  BigMips order by phi, and max keeps
\* the first of the items it finds no greater one for.  Items of equal phi
\* are compared further by their constellations, in an order that is not
\* given: any of them can be the one kept, but among items of the same phi
\* and constellations it is the first.
max_mips(mips) ==
    LET greatest == {i \in 1 .. Len(mips) :
                        \A j \in 1 .. Len(mips) : mips[j].phi <= mips[i].phi}
    IN {mips[i] : i \in {k \in greatest :
                            \A j \in greatest :
                                SameRank(mips[j], mips[k]) => k <= j}}

BmRest ==
    /\ cache = <<>> /\ pc = "off" /\ subsystem = <<>> /\ cacheKey = 0
    /\ bipartitions = <<>> /\ unpartitioned = <<>> /\ mipCandidates = <<>>
    /\ result = <<>> /\ trace = <<>> /\ firstResult = <<>> /\ calls = 0
    /\ repeated = FALSE /\ conceptCall = <<>>

CxInit ==
    /\ cxArgument \in CxArguments
    /\ cxCall \in {"main_complex", "complexes"}
    /\ cxPc = "call"
    /\ cxBuilt = <<>>
    /\ cxMips = <<>>
    /\ cxResult = <<>>
    /\ cm \in CxNetworks(cxArgument.size)
    /\ policy \in BOOLEAN
    /\ seed \in 0 .. MaxPhi
    /\ emdUndefined \in {0, MaxPhi}
    /\ BmRest /\ DistRest /\ FmIdle /\ CutIdle /\ MiceIdle /\ RepIdle
    /\ LateIdle

\* main_complex lines 305-308, complexes lines 326-329: the argument is not a
\* Network, ValueError
CxRaise ==
    /\ cxPc = "call"
    /\ ~isinstance(cxArgument, "Network")
    /\ cxPc' = "raised"
    /\ UNCHANGED <<cxArgument, cxCall, cxBuilt, cxMips, cxResult, coreVars,
                   cutVars, miceVars, repVars,
                   lateVars>>

\* the argument is a Network: complexes returns its generator, and
\* main_complex hands that generator to max; nothing is built yet
CxGenerator ==
    /\ cxPc = "call"
    /\ isinstance(cxArgument, "Network")
    /\ cxPc' = "iterate"
    /\ UNCHANGED <<cxArgument, cxCall, cxBuilt, cxMips, cxResult, coreVars,
                   cutVars, miceVars, repVars,
                   lateVars>>

\* one item is taken from the generator: subsystems (lines 316-318) builds
\* the Subsystem of the next subset, line 330 evaluates its big_mip
CxNextItem ==
    /\ cxPc = "iterate"
    /\ Len(cxBuilt) < Len(CxSubsets(cxArgument))
    /\ LET subset == CxSubsets(cxArgument)[Len(cxBuilt) + 1]
           built == Subsystem(subset, NullCut(subset), 0)
       IN /\ cxBuilt' = Append(cxBuilt, built)
          /\ cxMips' = Append(cxMips, big_mip(built))
    /\ UNCHANGED <<cxArgument, cxCall, cxPc, cxResult, coreVars, cutVars,
                   miceVars, repVars,
                   lateVars>>

\* the generator is exhausted: max returns (line 309), or the caller of
\* complexes has seen every item
CxExhausted ==
    /\ cxPc = "iterate"
    /\ Len(cxBuilt) = Len(CxSubsets(cxArgument))
    /\ IF cxCall = "main_complex"
       THEN /\ cxResult' \in max_mips(cxMips)
            /\ cxPc' = "returned"
       ELSE /\ cxResult' = cxResult
            /\ cxPc' = "exhausted"
    /\ UNCHANGED <<cxArgument, cxCall, cxBuilt, cxMips, coreVars, cutVars,
                   miceVars, repVars,
                   lateVars>>

CxNext == CxRaise \/ CxGenerator \/ CxNextItem \/ CxExhausted

SpecComplexes == CxInit /\ [][CxNext]_vars

\* the nodes of the network have no connection between them
Unconnected == \A a, b \in 0 .. (cxArgument.size - 1) :
                   a # b => <<a, b>> \notin cm

TwoNodeUnconnected == cxArgument.size = 2 /\ Unconnected

----------------------------------------------------------------------------
(* SpecRepertoire: Subsystem.cause_repertoire (subsystem.py).              *)
(*                                                                         *)
(* A tensor over the network's nodes has, per node, a dimension of size 2  *)
(* or 1.  It is a record: `free` the nodes whose dimension has size 2,     *)
(* `num` the numerator of each entry, indexed by the states of the free    *)
(* nodes, and `den` the denominator all entries share, so that the         *)
(* arithmetic is exact.                                                    *)

Bits == {0, 1}

\* the states of a set of nodes
StatesOf(S) == [S -> Bits]

Tensor(free, num, den) == [free |-> free, num |-> num, den |-> den]

\* np.ones(shape): size 2 for the nodes of `free`, size 1 for the others
ones(free) == Tensor(free, [st \in StatesOf(free) |-> 1], 1)

\* 1 - tpm
complement(t) ==
    Tensor(t.free, [st \in StatesOf(t.free) |-> t.den - t.num[st]], t.den)

\* tpm[conditioning_indices]: the dimension of `node` keeps the one entry
\* of index `value`
condition(t, node, value) ==
    IF node \notin t.free THEN t
    ELSE Tensor(t.free \ {node},
                [st \in StatesOf(t.free \ {node}) |->
                    t.num[(node :> value) @@ st]],
                t.den)

\* utils.marginalize_out(node, tpm): the average over the dimension of
\* `node`, which is kept with size 1
marginalize_out(node, t) ==
    IF node \notin t.free THEN t
    ELSE Tensor(t.free \ {node},
                [st \in StatesOf(t.free \ {node}) |->
                    t.num[(node :> 0) @@ st] + t.num[(node :> 1) @@ st]],
                2 * t.den)

\* np.multiply(a, b), dimensions of size 1 being broadcast
multiply(a, b) ==
    LET free == a.free \cup b.free
    IN Tensor(free,
              [st \in StatesOf(free) |->
                  a.num[[n \in a.free |-> st[n]]]
                      * b.num[[n \in b.free |-> st[n]]]],
              a.den * b.den)

RECURSIVE SumOver(_, _)
SumOver(num, states) ==
    IF states = {} THEN 0
    ELSE LET st == CHOOSE x \in states : TRUE
         IN num[st] + SumOver(num, states \ {st})

\* the numerator of np.sum(t), over t.den
mass(t) == SumOver(t.num, DOMAIN t.num)

\* np.divide(t, np.sum(t)): each entry num / den over mass / den
divide_by_sum(t) == Tensor(t.free, t.num, mass(t))

\* max_entropy_distribution(purview, network): every state of the purview
\* has the same probability
max_entropy_distribution(purview) ==
    Tensor(purview, [st \in StatesOf(purview) |-> 1],
           Cardinality(StatesOf(purview)))

\* the value 1 that an empty purview yields: a number, not a tensor
Scalar1 == [scalar |-> 1]

RECURSIVE ConditionAll(_, _, _)
ConditionAll(t, nodes, past_state) ==
    IF nodes = {} THEN t
    ELSE LET node == CHOOSE n \in nodes : TRUE
         IN ConditionAll(condition(t, node, past_state[node]),
                         nodes \ {node}, past_state)

RECURSIVE MarginalizeAll(_, _)
MarginalizeAll(t, nodes) ==
    IF nodes = {} THEN t
    ELSE LET node == CHOOSE n \in nodes : TRUE
         IN MarginalizeAll(marginalize_out(node, t), nodes \ {node})

\* the probability 1 as a numerator of the tpm entries, which count halves
One == 2

\* The transition probabilities of the model, for each node the
\* probability of being on after each state of the network: a ring of
\* copies; OR, AND and XOR of the two other nodes; fair coins; and a node
\* that is never on, one that always is, and a copy.
Rings == [n \in Nodes |-> [st \in StatesOf(Nodes) |->
             One * st[(n + NetworkSize - 1) % NetworkSize]]]

Gates ==
    [n \in Nodes |-> [st \in StatesOf(Nodes) |->
        LET a == st[(n + 1) % NetworkSize]
            b == st[(n + 2) % NetworkSize]
        IN One * (CASE n = 0 -> IF a + b > 0 THEN 1 ELSE 0
                    [] n = 1 -> a * b
                    [] OTHER -> (a + b) % 2)]]

Coins == [n \in Nodes |-> [st \in StatesOf(Nodes) |-> 1]]

Stuck ==
    [n \in Nodes |-> [st \in StatesOf(Nodes) |->
        CASE n = 0 -> 0
          [] n = 1 -> One
          [] OTHER -> One * st[0]]]

Tpms == {Rings, Gates, Coins, Stuck}

\* mechanism_node.tpm: a tensor over every node of the network
node_tpm(tpm, node) == Tensor(Nodes, tpm[node], One)

\* the subsystems of the model with the cuts Subsystem.cut lets them have
RepSubsystems ==
    {[nodes |-> ns, cut |-> a_cut(sv, ns \ sv), current_state |-> cs,
      past_state |-> ps] :
        ns \in SUBSET Nodes, sv \in SUBSET Nodes,
        cs \in StatesOf(Nodes), ps \in StatesOf(Nodes)}

\* lines 164-178, for one mechanism node
non_purview_inputs(purview) == Nodes \ purview

severed_inputs(self, mechanism_node) ==
    {n \in Nodes : n \in self.cut.severed /\ mechanism_node \in self.cut.intact}

boundary_inputs(self, purview, mechanism_node) ==
    (non_purview_inputs(purview) \cup severed_inputs(self, mechanism_node))
        \ self.nodes

marginal_inputs(self, purview, mechanism_node) ==
    (non_purview_inputs(purview) \cup severed_inputs(self, mechanism_node))
        \ boundary_inputs(self, purview, mechanism_node)

\* lines 154-191: the tpm of the node, conditioned on the node's current
\* state and on the boundary inputs, the marginal inputs averaged out
conditioned_tpm(self, tpm, purview, mechanism_node) ==
    LET own == IF self.current_state[mechanism_node] = 1
               THEN node_tpm(tpm, mechanism_node)
               ELSE complement(node_tpm(tpm, mechanism_node))
        fixed == ConditionAll(own,
                              boundary_inputs(self, purview, mechanism_node),
                              self.past_state)
    IN MarginalizeAll(fixed, marginal_inputs(self, purview, mechanism_node))

\* a faulty variant of normalize: the division does not test the sum
normalize_unguarded(cjd) ==
    IF mass(cjd) # 0
    THEN [cjd |-> divide_by_sum(cjd), divided |-> TRUE, failed |-> FALSE]
    ELSE [cjd |-> cjd, divided |-> TRUE, failed |-> TRUE]

\* lines 198-201: cjd_sum = np.sum(cjd); if cjd_sum != 0: divide
normalize(cjd) ==
    IF mass(cjd) # 0
    THEN [cjd |-> divide_by_sum(cjd), divided |-> TRUE, failed |-> FALSE]
    ELSE [cjd |-> cjd, divided |-> FALSE, failed |-> FALSE]

\* the current states of the model: all off, all on, and one node on
RepCurrentStates ==
    {[n \in Nodes |-> 0], [n \in Nodes |-> 1],
     [n \in Nodes |-> IF n = 0 THEN 1 ELSE 0]}

\* the past states of the model: all off, and the last node on
RepPastStates ==
    {[n \in Nodes |-> 0], [n \in Nodes |-> IF n = NetworkSize - 1 THEN 1 ELSE 0]}

\* the mechanisms of a subsystem: tuples of its nodes, in increasing order
RepMechanisms(self) == {SortedTuple(m) : m \in SUBSET self.nodes}

RepInit ==
    /\ repSub \in {s \in RepSubsystems :
                      /\ s.cut.severed \subseteq s.nodes
                      /\ s.current_state \in RepCurrentStates
                      /\ s.past_state \in RepPastStates}
    /\ repTpm \in Tpms
    /\ repMechanism \in RepMechanisms(repSub)
    /\ repPurview \in SUBSET Nodes
    /\ repPc = "call"
    /\ repIndex = 0
    /\ repCjd = <<>>
    /\ repInputs = <<>>
    /\ repDivided = FALSE
    /\ repResult = <<>>
    /\ DistIdle /\ FmIdle /\ BmIdle /\ CutIdle /\ MiceIdle /\ CxIdle
    /\ LateIdle

\* lines 132-133
RepEmptyMechanism ==
    /\ repPc = "call"
    /\ Len(repMechanism) = 0
    /\ repResult' = max_entropy_distribution(repPurview)
    /\ repPc' = "returned"
    /\ UNCHANGED <<repSub, repTpm, repMechanism, repPurview, repIndex, repCjd,
                   repInputs, repDivided, coreVars, cutVars, miceVars, cxVars,
                   lateVars>>

\* lines 136-137
RepEmptyPurview ==
    /\ repPc = "call"
    /\ Len(repMechanism) # 0
    /\ repPurview = {}
    /\ repResult' = Scalar1
    /\ repPc' = "returned"
    /\ UNCHANGED <<repSub, repTpm, repMechanism, repPurview, repIndex, repCjd,
                   repInputs, repDivided, coreVars, cutVars, miceVars, cxVars,
                   lateVars>>

\* lines 140-141: cjd is preallocated
RepAllocate ==
    /\ repPc = "call"
    /\ Len(repMechanism) # 0
    /\ repPurview # {}
    /\ repCjd' = ones(repPurview)
    /\ repPc' = "loop"
    /\ UNCHANGED <<repSub, repTpm, repMechanism, repPurview, repIndex,
                   repInputs, repDivided, repResult, coreVars, cutVars,
                   miceVars, cxVars,
                   lateVars>>

\* lines 148-195: one pass of the loop over the mechanism's nodes
RepMechanismNode ==
    /\ repPc = "loop"
    /\ repIndex < Len(repMechanism)
    /\ LET mechanism_node == repMechanism[repIndex + 1]
       IN /\ repInputs' = Append(repInputs,
                 [node |-> mechanism_node,
                  conditioned |-> boundary_inputs(repSub, repPurview,
                                                  mechanism_node),
                  marginalized |-> marginal_inputs(repSub, repPurview,
                                                   mechanism_node)])
          /\ repCjd' = multiply(repCjd,
                                conditioned_tpm(repSub, repTpm, repPurview,
                                                mechanism_node))
    /\ repIndex' = repIndex + 1
    /\ UNCHANGED <<repSub, repTpm, repMechanism, repPurview, repPc,
                   repDivided, repResult, coreVars, cutVars, miceVars, cxVars,
                   lateVars>>

\* lines 198-208: the normalization and the return
RepNormalize ==
    /\ repPc = "loop"
    /\ repIndex = Len(repMechanism)
    /\ LET normalized == normalize(repCjd)
       IN /\ repDivided' = normalized.divided
          /\ IF normalized.failed
             THEN /\ repPc' = "ZeroDivision"
                  /\ UNCHANGED <<repCjd, repResult>>
             ELSE /\ repCjd' = normalized.cjd
                  /\ repResult' = normalized.cjd
                  /\ repPc' = "returned"
    /\ UNCHANGED <<repSub, repTpm, repMechanism, repPurview, repIndex,
                   repInputs, coreVars, cutVars, miceVars, cxVars,
                   lateVars>>

RepNext ==
    \/ RepEmptyMechanism
    \/ RepEmptyPurview
    \/ RepAllocate
    \/ RepMechanismNode
    \/ RepNormalize

SpecRepertoire == RepInit /\ [][RepNext]_vars


\* the connection of n into the mechanism node is severed by the cut
SeveredInto(n, mechanism_node) ==
    n \in repSub.cut.severed /\ mechanism_node \in repSub.cut.intact

\* C19: for each mechanism node, the inputs conditioned on their past state
\* are exactly the non-purview nodes outside the subsystem together with
\* the non-purview nodes inside it whose connection into the mechanism node
\* is severed; the inputs marginalized out are exactly the remaining
\* non-purview nodes inside the subsystem; the two sets are disjoint and
\* hold no purview node.
C19_ConditionedAndMarginalizedInputs ==
    \A i \in 1 .. Len(repInputs) :
        LET e == repInputs[i]
            inside == repSub.nodes \ repPurview
            outside == (Nodes \ repSub.nodes) \ repPurview
        IN /\ e.conditioned =
                  outside \cup {n \in inside : SeveredInto(n, e.node)}
           /\ e.marginalized = {n \in inside : ~SeveredInto(n, e.node)}
           /\ e.conditioned \cap e.marginalized = {}
           /\ (e.conditioned \cup e.marginalized) \cap repPurview = {}

\* What holds instead: only the non-purview nodes outside the subsystem are
\* conditioned; every node inside it that is not in the purview, or whose
\* connection into the mechanism node is severed, is marginalized out.  The
\* two sets are disjoint, and the statement of C19 holds for every
\* mechanism node no connection into which is severed.
C19_Holds_SeveredInputsAreMarginalized ==
    \A i \in 1 .. Len(repInputs) :
        LET e == repInputs[i]
            inside == repSub.nodes \ repPurview
            outside == (Nodes \ repSub.nodes) \ repPurview
            severed == {n \in repSub.nodes : SeveredInto(n, e.node)}
        IN /\ e.conditioned = outside
           /\ e.marginalized = inside \cup severed
           /\ e.conditioned \cap e.marginalized = {}
           /\ severed = {} =>
                  /\ e.marginalized = inside
                  /\ (e.conditioned \cup e.marginalized) \cap repPurview = {}

\* every entry of a tensor is zero
AllZero(t) == \A st \in DOMAIN t.num : t.num[st] = 0

\* the entries of a tensor sum to 1
SumsToOne(t) == t.den # 0 /\ mass(t) = t.den

\* the product of the conditioned tensors, before the normalization
Product ==
    LET RECURSIVE ProductOf(_)
        ProductOf(k) ==
            IF k = 0 THEN ones(repPurview)
            ELSE multiply(ProductOf(k - 1),
                          conditioned_tpm(repSub, repTpm, repPurview,
                                          repMechanism[k]))
    IN ProductOf(Len(repMechanism))

\* C20: cause_repertoire never fails on zero mass.  When the product of the
\* conditioned tensors has mass zero the result is the all-zero tensor over
\* the purview and nothing was divided; in every other case with a nonempty
\* mechanism and purview the entries of the result sum to 1; an empty
\* mechanism yields the uniform distribution over the purview, and a
\* nonempty mechanism with an empty purview yields the scalar 1.
C20_ZeroMassIsNotAnError ==
    /\ repPc # "ZeroDivision"
    /\ repPc = "returned" =>
        IF Len(repMechanism) = 0
        THEN /\ repResult.free = repPurview
             /\ SumsToOne(repResult)
             /\ \A st1, st2 \in DOMAIN repResult.num :
                    repResult.num[st1] = repResult.num[st2]
        ELSE IF repPurview = {}
        THEN repResult = Scalar1
        ELSE /\ repResult.free = repPurview
             /\ IF mass(Product) = 0
                THEN AllZero(repResult) /\ ~repDivided
                ELSE SumsToOne(repResult) /\ repDivided

\* a nonempty mechanism over a nonempty purview whose product has no mass:
\* the all-zero tensor was returned
C20_Witness ==
    /\ repPc = "returned"
    /\ Len(repMechanism) = 2
    /\ Cardinality(repPurview) = 2
    /\ mass(Product) = 0
    /\ AllZero(repResult)
    /\ ~repDivided


----------------------------------------------------------------------------
(* SpecUsage: one call of find_mip, of find_mice, of Subsystem.cut, or of  *)
(* main_complex / complexes, with valid and with invalid arguments.  Each  *)
(* behaviour is a behaviour of one of SpecFindMip, SpecMice, SpecCut and   *)
(* SpecComplexes.                                                          *)

UsageInit == FmInit \/ MiceInit \/ CutInit \/ CxInit

UsageNext == FmNext \/ MiceNext \/ CutNext \/ CxNext

SpecUsage == UsageInit /\ [][UsageNext]_vars

\* C12: every usage error is raised at once and changes nothing.  find_mip
\* and find_mice raise for an invalid direction before any repertoire is
\* computed or any purview examined; Subsystem.cut raises for halves that
\* do not hold every node once and leaves the stored cut as it was;
\* main_complex and complexes raise for an argument that is not a Network
\* at the call, before any subsystem is built or big_mip evaluated.
C12_UsageErrorsChangeNothing ==
    [][ /\ (fmPc' = "raised" /\ fmPc # "raised") =>
              /\ fmPc = "idle"
              /\ fmResult' = ValueError
              /\ fmUnpartitioned' = <<>> /\ fmCandidates' = <<>>
              /\ fmSeen' = <<>> /\ fmIndex' = 0
        /\ (micePc' = "raised" /\ micePc # "raised") =>
              /\ micePc = "idle"
              /\ miceResult' = ValueError
              /\ miceExamined' = <<>> /\ miceMips' = <<>> /\ miceIndex' = 0
        /\ cutOutcome' = "ValueError" => selfSub' = selfSub
        /\ (cxPc' = "raised" /\ cxPc # "raised") =>
              /\ cxPc = "call"
              /\ cxBuilt' = <<>> /\ cxMips' = <<>> /\ cxResult' = <<>>
        \* and no call with such an argument goes on
        /\ fmPc' \in {"loop", "returned"} =>
              fmDirection' \in {"past", "future"}
        /\ micePc' \in {"loop", "returned"} =>
              miceDirection'.value \in {"past", "future"}
        /\ cutOutcome' = "cut" =>
              /\ Range(selfSub'.cut.severed) \cup Range(selfSub'.cut.intact)
                     = Range(selfSub'.nodes)
              /\ Len(selfSub'.cut.severed) + Len(selfSub'.cut.intact)
                     = Len(selfSub'.nodes)
        /\ cxPc' \in {"iterate", "returned", "exhausted"} =>
              isinstance(cxArgument', "Network")
      ]_vars

\* a cut was stored, and a later call with invalid halves has raised
C12_Witness ==
    /\ cutOutcome = "ValueError"
    /\ selfSub.cut # a_cut(<<>>, selfSub.nodes)


----------------------------------------------------------------------------
(* SpecConstellation: constellation(subsystem) (compute.py), step by step. *)

ConInit ==
    /\ conSub \in Subsystems
    /\ conPc = "concepts"
    /\ conCalled = <<>>
    /\ conConcepts = <<>>
    /\ conResult = <<>>
    /\ cm \in Networks
    /\ policy = FALSE
    /\ seed \in 0 .. MaxPhi
    /\ BmRest /\ DistIdle /\ FmIdle /\ CutIdle /\ MiceIdle /\ CxIdle
    /\ RepIdle /\ PhiIdle /\ EffIdle /\ ParIdle

\* lines 71-72: concept is called with the next item of
\* utils.powerset(subsystem.nodes)
ConConcept ==
    /\ conPc = "concepts"
    /\ Len(conCalled) < Len(powerset(conSub.nodes))
    /\ LET mechanism == powerset(conSub.nodes)[Len(conCalled) + 1]
       IN /\ conCalled' = Append(conCalled, mechanism)
          /\ conConcepts' = Append(conConcepts, concept(conSub, mechanism))
    /\ UNCHANGED <<conSub, conPc, conResult, coreVars, cutVars, miceVars,
                   cxVars, repVars, phiVars,
                   effVars, parVars>>

\* a faulty variant of ConFilter: the tuple of all the concepts is returned
ConReturnAll ==
    /\ conPc = "concepts"
    /\ Len(conCalled) = Len(powerset(conSub.nodes))
    /\ conResult' = conConcepts
    /\ conPc' = "returned"
    /\ UNCHANGED <<conSub, conCalled, conConcepts, coreVars, cutVars,
                   miceVars, cxVars, repVars, phiVars,
                   effVars, parVars>>

\* line 74: return tuple(filter(None, concepts))
ConFilter ==
    /\ conPc = "concepts"
    /\ Len(conCalled) = Len(powerset(conSub.nodes))
    /\ conResult' = SelectSeq(conConcepts, ConceptBool)
    /\ conPc' = "returned"
    /\ UNCHANGED <<conSub, conCalled, conConcepts, coreVars, cutVars,
                   miceVars, cxVars, repVars, phiVars,
                   effVars, parVars>>

ConNext == ConConcept \/ ConFilter

SpecConstellation == ConInit /\ [][ConNext]_vars

\* the nonempty subsets of the subsystem's nodes, in enumeration order
NonemptySubsets == Tail(powerset(conSub.nodes))

\* the returned tuple holds, in enumeration order, the concepts of the
\* nonempty subsets whose phi is not zero, and so neither the null concept
\* nor a zero-phi concept of the precheck
KeepsNonzeroConcepts ==
    /\ conResult =
           LET all == [i \in 1 .. Len(NonemptySubsets) |->
                          concept(conSub, NonemptySubsets[i])]
           IN SelectSeq(all, LAMBDA c : c.phi # 0)
    /\ \A i \in 1 .. Len(conResult) :
           /\ conResult[i].phi # 0
           /\ conResult[i].mechanism # {}
           /\ conResult[i] # null_concept

\* C22 as stated: constellation computes concept for every nonempty subset
\* of the subsystem's nodes and for no other mechanism, the empty set being
\* excluded, and returns exactly the concepts of nonzero phi in enumeration
\* order.
C22_ConceptForNonemptySubsetsOnly ==
    conPc = "returned" =>
        /\ conCalled = NonemptySubsets
        /\ KeepsNonzeroConcepts

\* C22, amended: constellation calls concept for every subset of the
\* subsystem's nodes in enumeration order, the empty set first, for which
\* concept returns the null concept; it returns exactly the concepts of the
\* nonempty subsets whose phi is not zero, in enumeration order.
C22_ConceptForEverySubset ==
    conPc = "returned" =>
        /\ conCalled = powerset(conSub.nodes)
        /\ conCalled[1] = {}
        /\ conConcepts[1] = null_concept
        /\ KeepsNonzeroConcepts

\* a three-node subsystem whose constellation has a concept and leaves out a
\* zero-phi concept of a nonempty mechanism
C22_Witness ==
    /\ conPc = "returned"
    /\ conSub.nodes = Nodes
    /\ Len(conResult) > 0
    /\ \E i \in 2 .. Len(conConcepts) : conConcepts[i].phi = 0


----------------------------------------------------------------------------
(* SpecPhi: Subsystem.phi_mip_past, phi_mip_future and phi (subsystem.py), *)
(* on what find_mip returns.                                               *)

PhiCallers == {"phi_mip_past", "phi_mip_future", "phi"}

\* a number returned, and the exception of an attribute read on None
Number(value) == [kind |-> "number", value |-> value]
AttributeError == [kind |-> "AttributeError", value |-> 0]

\* mip.difference: None has no attribute `difference`
difference_of(mip) ==
    IF mip.kind = "None" THEN AttributeError ELSE Number(mip.difference)

PhiInit ==
    /\ phiCaller \in PhiCallers
    /\ phiMechanism \in SUBSET Nodes
    /\ phiPurview \in SUBSET Nodes
    /\ phiPc = IF phiCaller = "phi_mip_future" THEN "future" ELSE "past"
    /\ phiMips = <<>>
    /\ phiPast = 0
    /\ phiFuture = 0
    /\ phiResult = <<>>
    /\ DistIdle /\ FmIdle /\ BmIdle /\ CutIdle /\ MiceIdle /\ CxIdle
    /\ RepIdle /\ ConIdle /\ EffIdle /\ ParIdle

\* line 497, phi_mip_past: self.mip_past(mechanism, purview).difference
PhiMipPast ==
    /\ phiPc = "past"
    /\ \E mip \in FindMipOutcomes(phiMechanism, phiPurview) :
          /\ phiMips' = Append(phiMips, mip)
          /\ IF difference_of(mip).kind = "AttributeError"
             THEN /\ phiResult' = AttributeError
                  /\ phiPc' = "raised"
                  /\ UNCHANGED phiPast
             ELSE /\ phiPast' = difference_of(mip).value
                  /\ IF phiCaller = "phi"
                     THEN phiPc' = "future" /\ UNCHANGED phiResult
                     ELSE /\ phiResult' = difference_of(mip)
                          /\ phiPc' = "returned"
    /\ UNCHANGED <<phiCaller, phiMechanism, phiPurview, phiFuture, coreVars,
                   cutVars, miceVars, cxVars, repVars, conVars,
                   effVars, parVars>>

\* line 505, phi_mip_future: self.mip_future(mechanism, purview).difference
PhiMipFuture ==
    /\ phiPc = "future"
    /\ \E mip \in FindMipOutcomes(phiMechanism, phiPurview) :
          /\ phiMips' = Append(phiMips, mip)
          /\ IF difference_of(mip).kind = "AttributeError"
             THEN /\ phiResult' = AttributeError
                  /\ phiPc' = "raised"
                  /\ UNCHANGED phiFuture
             ELSE /\ phiFuture' = difference_of(mip).value
                  /\ IF phiCaller = "phi"
                     THEN phiPc' = "min" /\ UNCHANGED phiResult
                     ELSE /\ phiResult' = difference_of(mip)
                          /\ phiPc' = "returned"
    /\ UNCHANGED <<phiCaller, phiMechanism, phiPurview, phiPast, coreVars,
                   cutVars, miceVars, cxVars, repVars, conVars,
                   effVars, parVars>>

\* lines 509-510, phi: min of the two values
PhiMin ==
    /\ phiPc = "min"
    /\ phiResult' = Number(Min2(phiPast, phiFuture))
    /\ phiPc' = "returned"
    /\ UNCHANGED <<phiCaller, phiMechanism, phiPurview, phiMips, phiPast,
                   phiFuture, coreVars, cutVars, miceVars, cxVars, repVars,
                   conVars, effVars, parVars>>

PhiNext == PhiMipPast \/ PhiMipFuture \/ PhiMin

SpecPhi == PhiInit /\ [][PhiNext]_vars

\* C24: phi_mip_past, phi_mip_future and phi complete with a number for
\* every mechanism and purview, also when find_mip returns None (the
\* mechanism is reducible, or there is no candidate bipartition): None
\* never surfaces as an error.
C24_PhiCompletesWithNumber ==
    /\ phiPc # "raised"
    /\ phiPc = "returned" => phiResult.kind = "number"

\* What holds instead: the call raises exactly when a find_mip it made
\* returned None, at that call; otherwise it returns the difference of the
\* MIP, and phi the smaller of the two differences.
C24_Holds_NoneRaisesAttributeError ==
    /\ phiPc = "raised" <=>
           /\ Len(phiMips) > 0
           /\ phiMips[Len(phiMips)] = None
    /\ phiPc = "raised" => phiResult = AttributeError
    /\ \A i \in 1 .. (Len(phiMips) - 1) : phiMips[i] # None
    /\ phiPc = "returned" =>
           /\ phiResult.kind = "number"
           /\ \A i \in 1 .. Len(phiMips) : phiResult.value <= phiMips[i].difference
           /\ \E i \in 1 .. Len(phiMips) : phiResult.value = phiMips[i].difference
           /\ Len(phiMips) = IF phiCaller = "phi" THEN 2 ELSE 1


----------------------------------------------------------------------------
(* SpecEffect: effect_repertoire and cause_repertoire of one Subsystem     *)
(* instance, before and after a call of cut (subsystem.py).                *)
(*                                                                         *)
(* The arrays of effect_repertoire have twice as many dimensions as the    *)
(* network has nodes: dimension n for the state the network was in, and    *)
(* dimension size + n for the state of node n after it.                    *)

\* the dimension for the state of `node` after the transition
future(node) == NetworkSize + node

\* lines 266-276: the tpm of the node being off and the tpm of it being on,
\* side by side along the node's future dimension
two_sided_tpm(tpm, node) ==
    LET axes == Nodes \cup {future(node)}
    IN Tensor(axes,
              [st \in StatesOf(axes) |->
                  LET on == tpm[node][[n \in Nodes |-> st[n]]]
                  IN IF st[future(node)] = 1 THEN on ELSE One - on],
              One)

\* a faulty variant of non_past_inputs: the severed nodes are averaged out
\* as well
non_past_inputs_or_severed(self, past_nodes) ==
    (self.nodes \ past_nodes) \cup self.cut.severed

\* line 286: set(self.nodes) - set(past_nodes)
non_past_inputs(self, past_nodes) == self.nodes \ past_nodes

\* lines 245-293: the product, over the purview's nodes, of the two-sided
\* tpm with the subsystem's nodes outside the mechanism averaged out
RECURSIVE accumulated_cjd(_, _, _, _)
accumulated_cjd(self, tpm, past_nodes, future_nodes) ==
    IF future_nodes = {} THEN Tensor({}, [st \in StatesOf({}) |-> 1], 1)
    ELSE LET node == CHOOSE n \in future_nodes : TRUE
         IN multiply(accumulated_cjd(self, tpm, past_nodes,
                                     future_nodes \ {node}),
                     MarginalizeAll(two_sided_tpm(tpm, node),
                                    non_past_inputs(self, past_nodes)))

\* line 57: the nodes of the network outside the subsystem
external_nodes(self) == Nodes \ self.nodes

\* lines 315-317: the reshape that drops the first half of the dimensions
reshape(t) ==
    LET purview == {n \in Nodes : future(n) \in t.free}
    IN Tensor(purview,
              [st \in StatesOf(purview) |->
                  t.num[[a \in t.free |-> st[a - NetworkSize]]]],
              t.den)

\* Subsystem.effect_repertoire, lines 210-325
effect_repertoire(self, tpm, mechanism, purview) ==
    IF purview = {} THEN Scalar1
    ELSE reshape(ConditionAll(
             accumulated_cjd(self, tpm, Range(mechanism), purview),
             Range(mechanism) \cup external_nodes(self),
             self.current_state))

\* Subsystem.cause_repertoire, lines 106-208: what the steps of
\* SpecRepertoire return, as one value
cause_repertoire(self, tpm, mechanism, purview) ==
    LET RECURSIVE cjd(_)
        cjd(k) ==
            IF k = 0 THEN ones(purview)
            ELSE multiply(cjd(k - 1),
                          conditioned_tpm(self, tpm, purview, mechanism[k]))
    IN IF Len(mechanism) = 0 THEN max_entropy_distribution(purview)
       ELSE IF purview = {} THEN Scalar1
       ELSE normalize(cjd(Len(mechanism))).cjd

\* what the caller sees of the instance in one evaluation
Evaluation(self, tpm, mechanism, purview) ==
    [cut |-> self.cut,
     effect |-> effect_repertoire(self, tpm, mechanism, purview),
     cause |-> cause_repertoire(self, tpm, mechanism, purview)]

\* a freshly constructed instance: nothing is severed
EffInit ==
    /\ effSub \in {s \in RepSubsystems :
                      /\ s.cut.severed = {}
                      /\ s.current_state \in RepCurrentStates
                      /\ s.past_state \in RepPastStates}
    /\ effTpm \in Tpms
    /\ effMechanism \in RepMechanisms(effSub)
    /\ effPurview \in SUBSET Nodes
    /\ effPc = "evaluate"
    /\ effSeen = <<>>
    /\ DistIdle /\ FmIdle /\ BmIdle /\ CutIdle /\ MiceIdle /\ CxIdle
    /\ RepIdle /\ ConIdle /\ PhiIdle /\ ParIdle

\* the caller evaluates both repertoires of the instance
EffEvaluate ==
    /\ effPc = "evaluate"
    /\ effSeen' = Append(effSeen,
                         Evaluation(effSub, effTpm, effMechanism, effPurview))
    /\ effPc' = IF Len(effSeen) = 0 THEN "cut" ELSE "done"
    /\ UNCHANGED <<effSub, effTpm, effMechanism, effPurview, coreVars,
                   cutVars, miceVars, cxVars, repVars, conVars, phiVars,
                   parVars>>

\* a valid call of cut, lines 91-104: the halves hold every node once
EffCut ==
    /\ effPc = "cut"
    /\ \E severed \in SUBSET effSub.nodes :
          effSub' = [effSub EXCEPT
                        !.cut = a_cut(severed, effSub.nodes \ severed)]
    /\ effPc' = "evaluate"
    /\ UNCHANGED <<effTpm, effMechanism, effPurview, effSeen, coreVars,
                   cutVars, miceVars, cxVars, repVars, conVars, phiVars,
                   parVars>>

EffNext == EffEvaluate \/ EffCut

SpecEffect == EffInit /\ [][EffNext]_vars

\* C23: effect_repertoire does not depend on the cut.  The same instance,
\* before and after any valid call of cut, and so any two subsystems that
\* differ in the cut only, return the same effect repertoire for every
\* mechanism and purview; cause_repertoire reads the cut.
C23_EffectRepertoireIgnoresCut ==
    \A i, j \in 1 .. Len(effSeen) : effSeen[i].effect = effSeen[j].effect

\* the cut has changed between two evaluations, and with it the cause
\* repertoire, while the effect repertoire, a distribution over two nodes,
\* is the same
C23_Witness ==
    /\ Len(effSeen) = 2
    /\ effSeen[1].cut # effSeen[2].cut
    /\ effSeen[1].cause # effSeen[2].cause
    /\ effSeen[1].effect = effSeen[2].effect
    /\ Cardinality(effPurview) = 2
    /\ \E st \in DOMAIN effSeen[2].effect.num :
           effSeen[2].effect.num[st] \notin {0, effSeen[2].effect.den}


----------------------------------------------------------------------------
(* SpecParallel: the parallel loop of _big_mip (compute.py, lines 263-275). *)
(* Parallel(n_jobs=...) hands each item of its argument to a worker of the  *)
(* pool, waits for all of them, and returns the results in the order of the *)
(* items.  A task is the index of a bipartition in `bipartitions`.          *)

\* the subsystems _big_mip reaches the loop with: more than one node, and
\* connected
SearchedSubsystems ==
    {s \in CallSubsystems : Cardinality(s.nodes) > 1 /\ ~Degenerate(s)}

Tasks == 1 .. Len(parBipartitions)

ParInit ==
    /\ cm \in Networks
    /\ policy = FALSE
    /\ seed \in 0 .. MaxPhi
    /\ emdUndefined \in {0, MaxPhi}
    /\ parSub \in SearchedSubsystems
    /\ parWorkers \in 1 .. MaxWorkers
    /\ parPc = "search"
    /\ parBipartitions = <<>>
    /\ parUnpartitioned = <<>>
    /\ parNext = 0
    /\ parRunning = [w \in 1 .. parWorkers |-> 0]
    /\ parCandidates = <<>>
    /\ parEvaluated = <<>>
    /\ parOrder = <<>>
    /\ parResult = NoBigMip
    /\ BmRest /\ DistRest /\ FmIdle /\ CutIdle /\ MiceIdle /\ CxIdle
    /\ RepIdle /\ ConIdle /\ PhiIdle /\ EffIdle

\* lines 263-266: the nontrivial bipartitions and the unpartitioned
\* constellation; line 268: the pool takes the tasks
ParStart ==
    /\ parPc = "search"
    /\ parBipartitions' = Tail(bipartition(parSub.nodes))
    /\ parUnpartitioned' = constellation(parSub)
    /\ parCandidates' =
           [t \in 1 .. Len(Tail(bipartition(parSub.nodes))) |-> NoBigMip]
    /\ parEvaluated' =
           [t \in 1 .. Len(Tail(bipartition(parSub.nodes))) |-> 0]
    /\ parPc' = "parallel"
    /\ UNCHANGED <<parSub, parWorkers, parNext, parRunning, parOrder,
                   parResult, coreVars, cutVars, miceVars, cxVars, repVars,
                   conVars, phiVars, effVars>>

\* a worker that has nothing to do takes the next task
ParDispatch(w) ==
    /\ parPc = "parallel"
    /\ parRunning[w] = 0
    /\ parNext < Len(parBipartitions)
    /\ parRunning' = [parRunning EXCEPT ![w] = parNext + 1]
    /\ parNext' = parNext + 1
    /\ UNCHANGED <<parSub, parWorkers, parPc, parBipartitions,
                   parUnpartitioned, parCandidates, parEvaluated, parOrder,
                   parResult, coreVars, cutVars, miceVars, cxVars, repVars,
                   conVars, phiVars, effVars>>

\* lines 270-272: a worker completes _evaluate_partition for its task; the
\* result takes the place of the task in the list
ParComplete(w) ==
    /\ parPc = "parallel"
    /\ parRunning[w] # 0
    /\ LET task == parRunning[w]
       IN /\ parCandidates' =
                 [parCandidates EXCEPT ![task] =
                     evaluate_partition(parSub, parBipartitions[task],
                                        parUnpartitioned)]
          /\ parEvaluated' = [parEvaluated EXCEPT ![task] = @ + 1]
          /\ parOrder' = Append(parOrder, task)
    /\ parRunning' = [parRunning EXCEPT ![w] = 0]
    /\ UNCHANGED <<parSub, parWorkers, parPc, parBipartitions,
                   parUnpartitioned, parNext, parResult, coreVars, cutVars,
                   miceVars, cxVars, repVars, conVars, phiVars, effVars>>

\* a faulty variant of ParReduce: the coordinator returns a candidate of phi
\* zero as soon as there is one
ParReduceEarly ==
    /\ parPc = "parallel"
    /\ \E t \in Tasks :
          /\ parCandidates[t].phi = 0
          /\ parResult' = parCandidates[t]
    /\ parPc' = "returned"
    /\ UNCHANGED <<parSub, parWorkers, parBipartitions, parUnpartitioned,
                   parNext, parRunning, parCandidates, parEvaluated, parOrder,
                   coreVars, cutVars, miceVars, cxVars, repVars, conVars,
                   phiVars, effVars>>

\* lines 268-275: every task is done, Parallel returns the list and
\* _big_mip returns min(mip_candidates)
ParReduce ==
    /\ parPc = "parallel"
    /\ parNext = Len(parBipartitions)
    /\ \A w \in 1 .. parWorkers : parRunning[w] = 0
    /\ parResult' = MinMip(parCandidates)
    /\ parPc' = "returned"
    /\ UNCHANGED <<parSub, parWorkers, parBipartitions, parUnpartitioned,
                   parNext, parRunning, parCandidates, parEvaluated, parOrder,
                   coreVars, cutVars, miceVars, cxVars, repVars, conVars,
                   phiVars, effVars>>

ParNext ==
    \/ ParStart
    \/ \E w \in 1 .. parWorkers : ParDispatch(w)
    \/ \E w \in 1 .. parWorkers : ParComplete(w)
    \/ ParReduce

SpecParallel == ParInit /\ [][ParNext]_vars

\* C21: for every size of the pool and every order in which the workers take
\* and complete their tasks, no bipartition is evaluated more than once and
\* none by two workers; the coordinator has a result only when every
\* nontrivial bipartition has been evaluated once and no worker is busy,
\* whatever phi the candidates have; and the result is the one the
\* sequential evaluation in enumeration order returns.
C21_ParallelSearchIsSequential ==
    /\ parPc \in {"parallel", "returned"} =>
           /\ \A t \in Tasks : parEvaluated[t] <= 1
           /\ \A w1, w2 \in 1 .. parWorkers :
                  (w1 # w2 /\ parRunning[w1] # 0) =>
                      parRunning[w1] # parRunning[w2]
           /\ \A w \in 1 .. parWorkers :
                  parRunning[w] # 0 => parEvaluated[parRunning[w]] = 0
    /\ parPc # "returned" => parResult = NoBigMip
    /\ parPc = "returned" =>
           /\ parBipartitions = Tail(bipartition(parSub.nodes))
           /\ \A t \in Tasks : parEvaluated[t] = 1
           /\ \A w \in 1 .. parWorkers : parRunning[w] = 0
           /\ parResult = big_mip(parSub)

\* two workers have completed three tasks out of enumeration order, a
\* candidate of phi zero was there before the last task was done, and the
\* coordinator has returned
C21_Witness ==
    /\ parPc = "returned"
    /\ parWorkers = 2
    /\ Len(parOrder) = 3
    /\ parOrder[1] > parOrder[2]
    /\ parCandidates[parOrder[1]].phi = 0
    /\ \E t \in Tasks : parCandidates[t].phi > 0

====
